---- MODULE Spec2Model ----
(***************************************************************************)
(* Model of the kernel-memory Python client (kernel_memory_client): the    *)
(* generated data models (to_dict / from_dict) and the per-endpoint        *)
(* response dispatch (_parse_response / _build_response / sync_detailed /  *)
(* asyncio_detailed).                                                      *)
(*                                                                         *)
(* Python values are records of one fixed shape so that any two values can *)
(* be compared:  t = the Python type, s = the scalar payload written as a  *)
(* string (or the class name of a model), l = the items of a list,         *)
(* d = the items of a dict (or the attributes of a model).                 *)
(***************************************************************************)
EXTENDS Integers, Sequences, FiniteSets, TLC

VARIABLES
    cstep,      \* codec scenario: position ("start", "built", "encoded", "received", "decoded", "redecoded")
    cmodel,     \* codec scenario: the in-memory value at hand (a model, a raised exception, or NoVal)
    cwire,      \* codec scenario: the wire value at hand (or NoVal)
    corig,      \* codec scenario: the input of the scenario (the model built or the wire value received)
    ccls,       \* codec scenario: the model class in use
    cop,        \* codec scenario: the last item operation on the decoded ProblemDetails
    rendpoint,  \* the api module called ("" outside the dispatch and call scenarios)
    rclient,    \* the Client passed to the call
    rresponse,  \* the httpx response of the server: status_code, content, headers
    rargs,      \* the arguments of the call: index, document_id, body
    pstep,      \* dispatch scenario: "received", then "parsed"
    pparsed,    \* dispatch scenario: what _parse_response returned or raised
    pc,         \* call scenario: per variant, "idle", "built", "sent" or "done"
    called,     \* call scenario: per variant, the function the caller called
    sent,       \* call scenario: per variant, the keyword arguments handed to request()
    outcome,    \* call scenario: per variant, the exception the transport raised ("" if none)
    result,     \* call scenario: per variant, what the call returned or raised
    requests,   \* call scenario: per variant, how many times request() was called
    decodes,    \* call scenario: per variant, how many times _build_response was called
    inflight,   \* call scenario: the variants whose request the transport holds
    spc,        \* shared-client scenario: per call, where its decode stands
    sresp,      \* shared-client scenario: per call, the response it received
    sdict,      \* shared-client scenario: per call, the dict d its from_dict works on
    sfields,    \* shared-client scenario: per call, the values popped so far
    sres,       \* shared-client scenario: per call, what it returned or raised
    mstep,      \* plugin scenario: "idle", "ready" or "returned"
    mresponse,  \* plugin scenario: the status code and JSON body the service answers with
    mresult,    \* plugin scenario: what search_document_snippets.sync returned or raised
    mreturn     \* plugin scenario: what MemoryPlugin.search returned or raised

cvars == <<cstep, cmodel, cwire, corig, ccls, cop>>
rvars == <<rendpoint, rclient, rresponse, rargs>>
pvars == <<pstep, pparsed>>
kvars == <<pc, called, sent, outcome, result, requests, decodes, inflight>>
svars == <<spc, sresp, sdict, sfields, sres>>
mvars == <<mstep, mresponse, mresult, mreturn>>

----------------------------------------------------------------------------
(* Python values *)

EmptyD == [k \in {} |-> 0]

V(t, s, l, d) == [t |-> t, s |-> s, l |-> l, d |-> d]

UNSET == V("Unset", "", <<>>, EmptyD)
PyNone == V("None", "", <<>>, EmptyD)
NoVal == V("novalue", "", <<>>, EmptyD)
PyStr(s) == V("str", s, <<>>, EmptyD)
PyInt(s) == V("int", s, <<>>, EmptyD)
PyFloat(s) == V("float", s, <<>>, EmptyD)
PyBool(s) == V("bool", s, <<>>, EmptyD)
PyList(l) == V("list", "", l, EmptyD)
PyDict(d) == V("dict", "", <<>>, d)
DateTime(s) == V("datetime", s, <<>>, EmptyD)
Enum(s) == V("StreamStates", s, <<>>, EmptyD)
Model(cls, attrs) == V("model", cls, <<>>, attrs)
Raise(exc) == V("raise", exc, <<>>, EmptyD)

IsRaise(v) == v.t = "raise"
IsInstance(v, cls) == v.t = "model" /\ v.s = cls
IsUnset(v) == v.t = "Unset"

\* The first raised exception among vals (evaluation order), else otherwise.
FirstRaise(vals, otherwise) ==
    IF \E i \in 1..Len(vals) : IsRaise(vals[i])
    THEN vals[CHOOSE i \in 1..Len(vals) :
                 IsRaise(vals[i]) /\ \A j \in 1..(i - 1) : ~IsRaise(vals[j])]
    ELSE otherwise

\* if v is not UNSET: field_dict[key] = v
Put(field_dict, key, v) ==
    IF IsUnset(v) THEN field_dict
    ELSE [k \in DOMAIN field_dict \cup {key} |-> IF k = key THEN v ELSE field_dict[k]]

\* field_dict.update(other)
Update(field_dict, other) ==
    [k \in DOMAIN field_dict \cup DOMAIN other |->
        IF k \in DOMAIN other THEN other[k] ELSE field_dict[k]]

\* mutant: the default of pop is None instead of UNSET
Pop_DefaultNone(d, key) == IF key \in DOMAIN d THEN d[key] ELSE PyNone

\* d.pop(key, UNSET): the value popped
Pop(d, key) == IF key \in DOMAIN d THEN d[key] ELSE UNSET

\* mutant: nothing was popped
Rest_KeepAll(d, keys) == d

\* d after the keys were popped
Rest(d, keys) == [k \in DOMAIN d \ keys |-> d[k]]

\* dict(src_dict): a mapping is copied; an iterable of [key, value] pairs
\* becomes a dict (an empty list or empty string gives {}); anything else raises.
\* When evaluating the argument raised (from_dict(response.json())), that
\* exception leaves the caller before dict() runs.
IsPair(v) == v.t = "list" /\ Len(v.l) = 2 /\ v.l[1].t = "str"
DictOf(src_dict) ==
    CASE src_dict.t = "raise" -> src_dict
      [] src_dict.t = "dict" -> src_dict
      [] src_dict.t = "list" /\ (\A i \in 1..Len(src_dict.l) : IsPair(src_dict.l[i])) ->
            PyDict([k \in {src_dict.l[i].l[1].s : i \in 1..Len(src_dict.l)} |->
                    src_dict.l[CHOOSE i \in 1..Len(src_dict.l) :
                        /\ src_dict.l[i].l[1].s = k
                        /\ \A j \in (i + 1)..Len(src_dict.l) : src_dict.l[j].l[1].s # k].l[2]])
      [] src_dict.t = "str" /\ src_dict.s = "" -> PyDict(EmptyD)
      [] src_dict.t = "str" -> Raise("ValueError")
      [] OTHER -> Raise("TypeError")

\* the _parse_<field> helper of a nullable scalar field: None, Unset and any
\* other value are all returned as they are (cast() does nothing at run time)
ParseScalar(data) == data

\* mutant: None values are dropped too, as _get_kwargs does for query parameters
FieldDict_DropNone(pairs) ==
    [k \in {pairs[i][1] : i \in {j \in 1..Len(pairs) : pairs[j][2].t \notin {"Unset", "None"}}} |->
        pairs[CHOOSE i \in 1..Len(pairs) : pairs[i][1] = k][2]]

\* The closing block of every to_dict: each (wire key, value) pair is stored
\* in field_dict unless the value is UNSET.
FieldDict(pairs) ==
    [k \in {pairs[i][1] : i \in {j \in 1..Len(pairs) : ~IsUnset(pairs[j][2])}} |->
        pairs[CHOOSE i \in 1..Len(pairs) : pairs[i][1] = k][2]]

\* datetime.isoformat(): the canonical ISO-8601 text of a datetime
isoformat(dt) == IF dt.t = "datetime" THEN PyStr(dt.s) ELSE Raise("AttributeError")

\* ISO-8601 spellings dateutil accepts besides the one isoformat() writes,
\* each with the isoformat() text of the datetime it denotes
IsoCanonical == {"2024-05-01T10:00:00", "2025-01-02T03:04:05+00:00"}
IsoAlternate ==
    [x \in {"2024-05-01T10:00", "2025-01-02T03:04:05Z"} |->
        IF x = "2024-05-01T10:00" THEN "2024-05-01T10:00:00" ELSE "2025-01-02T03:04:05+00:00"]

\* dateutil.parser.isoparse(): strict ISO-8601 parsing; raises on anything else
isoparse(data) ==
    CASE data.t # "str" -> Raise("TypeError")
      [] data.s \in IsoCanonical -> DateTime(data.s)
      [] data.s \in DOMAIN IsoAlternate -> DateTime(IsoAlternate[data.s])
      [] OTHER -> Raise("ValueError")

\* class StreamStates(str, Enum) and the lookup StreamStates(value)
StreamStatesValues == {"append", "error", "last", "reset"}
StreamStates(value) ==
    IF value.t = "str" /\ value.s \in StreamStatesValues THEN Enum(value.s)
    ELSE IF value.t = "StreamStates" THEN value
    ELSE Raise("ValueError")

----------------------------------------------------------------------------
(* Patterns shared by the generated models *)

\* mutant: no try / except around the item decoding
TryList_NoExcept(data, items) ==
    CASE data.t = "None" -> data
      [] data.t = "Unset" -> data
      [] data.t = "list" -> FirstRaise(items, PyList(items))
      [] OTHER -> Raise("TypeError")

\* mutant: the items that decode are kept and the others stay raw
TryList_Partial(data, items) ==
    CASE data.t = "None" -> data
      [] data.t = "Unset" -> data
      [] data.t = "list" ->
            PyList([i \in 1..Len(items) |-> IF IsRaise(items[i]) THEN data.l[i] ELSE items[i]])
      [] OTHER -> data

\* _parse_<field> of a list-of-model field, items being the from_dict of each
\* item of data: None and Unset pass through; a list whose items all decode
\* gives the list of models; any exception inside the try block is swallowed
\* and the raw data is returned.
TryList(data, items) ==
    CASE data.t = "None" -> data
      [] data.t = "Unset" -> data
      [] data.t = "list" ->
            IF \E i \in 1..Len(items) : IsRaise(items[i]) THEN data ELSE PyList(items)
      [] OTHER -> data

\* mutant: the raw fallback is taken before the candidate is tried
TryDict_RawFirst(data, decoded) == data

\* _parse_<field> of a dict-model field (tags, args), decoded being the
\* from_dict of data: None and Unset pass through; a dict that decodes gives
\* the model; otherwise the raw data.
TryDict(data, decoded) ==
    CASE data.t = "None" -> data
      [] data.t = "Unset" -> data
      [] data.t = "dict" -> IF IsRaise(decoded) THEN data ELSE decoded
      [] OTHER -> data

\* _parse_steps and its siblings: a list is kept as it is (cast), and so is
\* everything else.
TryListOfStr(data) ==
    CASE data.t = "None" -> data
      [] data.t = "Unset" -> data
      [] data.t = "list" -> data
      [] OTHER -> data

\* to_dict of a list-of-model field, items being item.to_dict() of each item
\* (AttributeError for an item without that method): a list gives the list of
\* encoded items; other values are kept.
EncodeList(value, items) ==
    CASE value.t = "Unset" -> UNSET
      [] value.t = "list" -> FirstRaise(items, PyList(items))
      [] OTHER -> value

\* item.to_dict() on a value that has no such method
NoToDict == Raise("AttributeError")

\* to_dict of a dict-model field, encoded being value.to_dict(): an instance
\* of the class is encoded; other values are kept.
EncodeDict(value, cls, encoded) ==
    CASE value.t = "Unset" -> UNSET
      [] value.t = "model" /\ value.s = cls -> encoded
      [] OTHER -> value

\* to_dict of a date-time field
EncodeDateTime(value) == IF value.t = "Unset" THEN UNSET ELSE isoformat(value)

\* mutant: a text that does not parse is kept as it is
DecodeDateTime_Lenient(data) ==
    IF data.t = "Unset" THEN UNSET
    ELSE IF IsRaise(isoparse(data)) /\ data.t = "str" THEN data ELSE isoparse(data)

\* from_dict of a date-time field
DecodeDateTime(data) == IF data.t = "Unset" THEN UNSET ELSE isoparse(data)

----------------------------------------------------------------------------
(* Models whose source is not part of the repository snapshot: the tag maps  *)
(* (string -> list of strings), the free-form argument map, IndexDetails and *)
(* DeleteAccepted.                                                          *)

IsStringList(v) ==
    v.t = "list" /\ \A i \in 1..Len(v.l) : v.l[i].t \in {"str", "None"}

\* PartitionTagsType0, DataPipelineStatusTagsType0 and the filter items
TagsType0_from_dict(cls, src_dict) ==
    LET d == DictOf(src_dict)
    IN  IF IsRaise(d) THEN d
        ELSE IF \A k \in DOMAIN d.d : IsStringList(d.d[k])
             THEN Model(cls, [additional_properties |-> PyDict(d.d)])
             ELSE Raise("TypeError")

TagsType0_to_dict(self) == PyDict(self.d.additional_properties.d)

\* SearchQueryArgsType0 / MemoryQueryArgsType0: free-form arguments
ArgsType0_from_dict(cls, src_dict) ==
    LET d == DictOf(src_dict)
    IN  IF IsRaise(d) THEN d ELSE Model(cls, [additional_properties |-> PyDict(d.d)])

ArgsType0_to_dict(self) == PyDict(self.d.additional_properties.d)

IndexDetails_to_dict(self) == PyDict(FieldDict(<< <<"name", self.d.name>> >>))

IndexDetails_from_dict(src_dict) ==
    LET d == DictOf(src_dict)
    IN  IF IsRaise(d) THEN d
        ELSE Model("IndexDetails", [name |-> ParseScalar(Pop(d.d, "name"))])

DeleteAccepted_to_dict(self) ==
    PyDict(FieldDict(<< <<"index", self.d.index>>,
                        <<"documentId", self.d.document_id>>,
                        <<"message", self.d.message>> >>))

DeleteAccepted_from_dict(src_dict) ==
    LET d == DictOf(src_dict)
    IN  IF IsRaise(d) THEN d
        ELSE Model("DeleteAccepted",
                   [index |-> ParseScalar(Pop(d.d, "index")),
                    document_id |-> ParseScalar(Pop(d.d, "documentId")),
                    message |-> ParseScalar(Pop(d.d, "message"))])

----------------------------------------------------------------------------
(* UploadAccepted *)

\* mutant: document_id is written under its internal name
UploadAccepted_to_dict_SnakeKey(self) ==
    PyDict(FieldDict(<< <<"index", self.d.index>>,
                        <<"document_id", self.d.document_id>>,
                        <<"message", self.d.message>> >>))

UploadAccepted_to_dict(self) ==
    PyDict(FieldDict(<< <<"index", self.d.index>>,
                        <<"documentId", self.d.document_id>>,
                        <<"message", self.d.message>> >>))

\* mutant: a key that is not declared is refused
UploadAccepted_from_dict_Strict(src_dict) ==
    LET d == DictOf(src_dict)
    IN  IF IsRaise(d) THEN d
        ELSE IF DOMAIN d.d \ {"index", "documentId", "message"} # {} THEN Raise("TypeError")
        ELSE Model("UploadAccepted",
                   [index |-> ParseScalar(Pop(d.d, "index")),
                    document_id |-> ParseScalar(Pop(d.d, "documentId")),
                    message |-> ParseScalar(Pop(d.d, "message"))])

UploadAccepted_from_dict(src_dict) ==
    LET d == DictOf(src_dict)
    IN  IF IsRaise(d) THEN d
        ELSE Model("UploadAccepted",
                   [index |-> ParseScalar(Pop(d.d, "index")),
                    document_id |-> ParseScalar(Pop(d.d, "documentId")),
                    message |-> ParseScalar(Pop(d.d, "message"))])

----------------------------------------------------------------------------
(* Partition *)

Partition_parse_tags(data) ==
    TryDict(data, TagsType0_from_dict("PartitionTagsType0", data))

Partition_to_dict(self) ==
    LET last_update == EncodeDateTime(self.d.last_update)
        tags == EncodeDict(self.d.tags, "PartitionTagsType0", TagsType0_to_dict(self.d.tags))
    IN  FirstRaise(<<last_update, tags>>,
            PyDict(FieldDict(<< <<"text", self.d.text>>,
                                <<"relevance", self.d.relevance>>,
                                <<"partitionNumber", self.d.partition_number>>,
                                <<"sectionNumber", self.d.section_number>>,
                                <<"lastUpdate", last_update>>,
                                <<"tags", tags>> >>)))

Partition_from_dict(src_dict) ==
    LET d == DictOf(src_dict)
        last_update == DecodeDateTime(Pop(d.d, "lastUpdate"))
    IN  IF IsRaise(d) THEN d
        ELSE FirstRaise(<<last_update>>,
                Model("Partition",
                      [text |-> ParseScalar(Pop(d.d, "text")),
                       relevance |-> Pop(d.d, "relevance"),
                       partition_number |-> Pop(d.d, "partitionNumber"),
                       section_number |-> Pop(d.d, "sectionNumber"),
                       last_update |-> last_update,
                       tags |-> Partition_parse_tags(Pop(d.d, "tags"))]))

----------------------------------------------------------------------------
(* TokenUsage *)

TokenUsage_to_dict(self) ==
    LET timestamp == EncodeDateTime(self.d.timestamp)
    IN  FirstRaise(<<timestamp>>,
            PyDict(FieldDict(<< <<"timestamp", timestamp>>,
                                <<"serviceType", self.d.service_type>>,
                                <<"modelType", self.d.model_type>>,
                                <<"modelName", self.d.model_name>>,
                                <<"tokenizerTokensIn", self.d.tokenizer_tokens_in>>,
                                <<"tokenizerTokensOut", self.d.tokenizer_tokens_out>>,
                                <<"serviceTokensIn", self.d.service_tokens_in>>,
                                <<"serviceTokensOut", self.d.service_tokens_out>>,
                                <<"serviceReasoningTokens", self.d.service_reasoning_tokens>> >>)))

TokenUsage_from_dict(src_dict) ==
    LET d == DictOf(src_dict)
        timestamp == DecodeDateTime(Pop(d.d, "timestamp"))
    IN  IF IsRaise(d) THEN d
        ELSE FirstRaise(<<timestamp>>,
                Model("TokenUsage",
                      [timestamp |-> timestamp,
                       service_type |-> ParseScalar(Pop(d.d, "serviceType")),
                       model_type |-> ParseScalar(Pop(d.d, "modelType")),
                       model_name |-> ParseScalar(Pop(d.d, "modelName")),
                       tokenizer_tokens_in |-> ParseScalar(Pop(d.d, "tokenizerTokensIn")),
                       tokenizer_tokens_out |-> ParseScalar(Pop(d.d, "tokenizerTokensOut")),
                       service_tokens_in |-> ParseScalar(Pop(d.d, "serviceTokensIn")),
                       service_tokens_out |-> ParseScalar(Pop(d.d, "serviceTokensOut")),
                       service_reasoning_tokens |->
                           ParseScalar(Pop(d.d, "serviceReasoningTokens"))]))

----------------------------------------------------------------------------
(* Citation *)

Citation_parse_partitions(data) == TryList(data, [i \in 1..Len(data.l) |-> Partition_from_dict(data.l[i])])

Citation_to_dict(self) ==
    LET partitions == EncodeList(self.d.partitions,
            [i \in 1..Len(self.d.partitions.l) |->
                IF self.d.partitions.l[i].t = "model" THEN Partition_to_dict(self.d.partitions.l[i]) ELSE NoToDict])
    IN  FirstRaise(<<partitions>>,
            PyDict(FieldDict(<< <<"link", self.d.link>>,
                                <<"index", self.d.index>>,
                                <<"documentId", self.d.document_id>>,
                                <<"fileId", self.d.file_id>>,
                                <<"sourceContentType", self.d.source_content_type>>,
                                <<"sourceName", self.d.source_name>>,
                                <<"sourceUrl", self.d.source_url>>,
                                <<"partitions", partitions>> >>)))

\* mutant: document_id is read under its snake_case name
Citation_from_dict_SnakeKey(src_dict) ==
    LET d == DictOf(src_dict)
    IN  IF IsRaise(d) THEN d
        ELSE Model("Citation",
                   [link |-> ParseScalar(Pop(d.d, "link")),
                    index |-> ParseScalar(Pop(d.d, "index")),
                    document_id |-> ParseScalar(Pop(d.d, "document_id")),
                    file_id |-> ParseScalar(Pop(d.d, "fileId")),
                    source_content_type |-> ParseScalar(Pop(d.d, "sourceContentType")),
                    source_name |-> ParseScalar(Pop(d.d, "sourceName")),
                    source_url |-> ParseScalar(Pop(d.d, "sourceUrl")),
                    partitions |-> Citation_parse_partitions(Pop(d.d, "partitions"))])

Citation_from_dict(src_dict) ==
    LET d == DictOf(src_dict)
    IN  IF IsRaise(d) THEN d
        ELSE Model("Citation",
                   [link |-> ParseScalar(Pop(d.d, "link")),
                    index |-> ParseScalar(Pop(d.d, "index")),
                    document_id |-> ParseScalar(Pop(d.d, "documentId")),
                    file_id |-> ParseScalar(Pop(d.d, "fileId")),
                    source_content_type |-> ParseScalar(Pop(d.d, "sourceContentType")),
                    source_name |-> ParseScalar(Pop(d.d, "sourceName")),
                    source_url |-> ParseScalar(Pop(d.d, "sourceUrl")),
                    partitions |-> Citation_parse_partitions(Pop(d.d, "partitions"))])

----------------------------------------------------------------------------
(* SearchResult *)

\* mutant: the decoded citations are collected last first
SearchResult_parse_results_Reversed(data) ==
    TryList(data, [i \in 1..Len(data.l) |-> Citation_from_dict(data.l[Len(data.l) + 1 - i])])

SearchResult_parse_results(data) == TryList(data, [i \in 1..Len(data.l) |-> Citation_from_dict(data.l[i])])

SearchResult_to_dict(self) ==
    LET results == EncodeList(self.d.results,
            [i \in 1..Len(self.d.results.l) |->
                IF self.d.results.l[i].t = "model" THEN Citation_to_dict(self.d.results.l[i]) ELSE NoToDict])
    IN  FirstRaise(<<results>>,
            PyDict(FieldDict(<< <<"query", self.d.query>>,
                                <<"noResult", self.d.no_result>>,
                                <<"results", results>> >>)))

SearchResult_from_dict(src_dict) ==
    LET d == DictOf(src_dict)
    IN  IF IsRaise(d) THEN d
        ELSE Model("SearchResult",
                   [query |-> ParseScalar(Pop(d.d, "query")),
                    no_result |-> Pop(d.d, "noResult"),
                    results |-> SearchResult_parse_results(Pop(d.d, "results"))])

----------------------------------------------------------------------------
(* MemoryAnswer *)

MemoryAnswer_parse_token_usage(data) == TryList(data, [i \in 1..Len(data.l) |-> TokenUsage_from_dict(data.l[i])])

MemoryAnswer_parse_relevant_sources(data) == TryList(data, [i \in 1..Len(data.l) |-> Citation_from_dict(data.l[i])])

MemoryAnswer_to_dict(self) ==
    LET stream_state ==
            CASE self.d.stream_state.t = "Unset" -> UNSET
              [] self.d.stream_state.t = "StreamStates" -> PyStr(self.d.stream_state.s)
              [] OTHER -> Raise("AttributeError")
        token_usage == EncodeList(self.d.token_usage,
            [i \in 1..Len(self.d.token_usage.l) |->
                IF self.d.token_usage.l[i].t = "model" THEN TokenUsage_to_dict(self.d.token_usage.l[i]) ELSE NoToDict])
        relevant_sources == EncodeList(self.d.relevant_sources,
            [i \in 1..Len(self.d.relevant_sources.l) |->
                IF self.d.relevant_sources.l[i].t = "model" THEN Citation_to_dict(self.d.relevant_sources.l[i]) ELSE NoToDict])
    IN  FirstRaise(<<stream_state, token_usage, relevant_sources>>,
            PyDict(FieldDict(<< <<"streamState", stream_state>>,
                                <<"question", self.d.question>>,
                                <<"noResult", self.d.no_result>>,
                                <<"noResultReason", self.d.no_result_reason>>,
                                <<"text", self.d.text>>,
                                <<"tokenUsage", token_usage>>,
                                <<"relevantSources", relevant_sources>> >>)))

MemoryAnswer_from_dict(src_dict) ==
    LET d == DictOf(src_dict)
        _stream_state == Pop(d.d, "streamState")
        stream_state == IF _stream_state.t = "Unset" THEN UNSET
                        ELSE StreamStates(_stream_state)
    IN  IF IsRaise(d) THEN d
        ELSE FirstRaise(<<stream_state>>,
                Model("MemoryAnswer",
                      [stream_state |-> stream_state,
                       question |-> ParseScalar(Pop(d.d, "question")),
                       no_result |-> Pop(d.d, "noResult"),
                       no_result_reason |-> ParseScalar(Pop(d.d, "noResultReason")),
                       text |-> ParseScalar(Pop(d.d, "text")),
                       token_usage |-> MemoryAnswer_parse_token_usage(Pop(d.d, "tokenUsage")),
                       relevant_sources |->
                           MemoryAnswer_parse_relevant_sources(Pop(d.d, "relevantSources"))]))

----------------------------------------------------------------------------
(* IndexCollection *)

IndexCollection_parse_results(data) == TryList(data, [i \in 1..Len(data.l) |-> IndexDetails_from_dict(data.l[i])])

IndexCollection_to_dict(self) ==
    LET results == EncodeList(self.d.results,
            [i \in 1..Len(self.d.results.l) |->
                IF self.d.results.l[i].t = "model" THEN IndexDetails_to_dict(self.d.results.l[i]) ELSE NoToDict])
    IN  FirstRaise(<<results>>, PyDict(FieldDict(<< <<"results", results>> >>)))

IndexCollection_from_dict(src_dict) ==
    LET d == DictOf(src_dict)
    IN  IF IsRaise(d) THEN d
        ELSE Model("IndexCollection",
                   [results |-> IndexCollection_parse_results(Pop(d.d, "results"))])

----------------------------------------------------------------------------
(* SearchQuery *)

SearchQuery_parse_filters(data) ==
    TryList(data, [i \in 1..Len(data.l) |-> TagsType0_from_dict("SearchQueryFiltersType0Item", data.l[i])])

SearchQuery_parse_args(data) ==
    TryDict(data, ArgsType0_from_dict("SearchQueryArgsType0", data))

SearchQuery_to_dict(self) ==
    LET filters == EncodeList(self.d.filters,
            [i \in 1..Len(self.d.filters.l) |->
                IF self.d.filters.l[i].t = "model" THEN TagsType0_to_dict(self.d.filters.l[i]) ELSE NoToDict])
        args == EncodeDict(self.d.args, "SearchQueryArgsType0", ArgsType0_to_dict(self.d.args))
    IN  FirstRaise(<<filters, args>>,
            PyDict(FieldDict(<< <<"index", self.d.index>>,
                                <<"query", self.d.query>>,
                                <<"filters", filters>>,
                                <<"minRelevance", self.d.min_relevance>>,
                                <<"limit", self.d.limit>>,
                                <<"args", args>> >>)))

SearchQuery_from_dict(src_dict) ==
    LET d == DictOf(src_dict)
    IN  IF IsRaise(d) THEN d
        ELSE Model("SearchQuery",
                   [index |-> ParseScalar(Pop(d.d, "index")),
                    query |-> ParseScalar(Pop(d.d, "query")),
                    filters |-> SearchQuery_parse_filters(Pop(d.d, "filters")),
                    min_relevance |-> Pop(d.d, "minRelevance"),
                    limit |-> Pop(d.d, "limit"),
                    args |-> SearchQuery_parse_args(Pop(d.d, "args"))])

----------------------------------------------------------------------------
(* MemoryQuery *)

MemoryQuery_parse_filters(data) ==
    TryList(data, [i \in 1..Len(data.l) |-> TagsType0_from_dict("MemoryQueryFiltersType0Item", data.l[i])])

MemoryQuery_parse_args(data) ==
    TryDict(data, ArgsType0_from_dict("MemoryQueryArgsType0", data))

MemoryQuery_to_dict(self) ==
    LET filters == EncodeList(self.d.filters,
            [i \in 1..Len(self.d.filters.l) |->
                IF self.d.filters.l[i].t = "model" THEN TagsType0_to_dict(self.d.filters.l[i]) ELSE NoToDict])
        args == EncodeDict(self.d.args, "MemoryQueryArgsType0", ArgsType0_to_dict(self.d.args))
    IN  FirstRaise(<<filters, args>>,
            PyDict(FieldDict(<< <<"index", self.d.index>>,
                                <<"question", self.d.question>>,
                                <<"filters", filters>>,
                                <<"minRelevance", self.d.min_relevance>>,
                                <<"stream", self.d.stream>>,
                                <<"args", args>> >>)))

MemoryQuery_from_dict(src_dict) ==
    LET d == DictOf(src_dict)
    IN  IF IsRaise(d) THEN d
        ELSE Model("MemoryQuery",
                   [index |-> ParseScalar(Pop(d.d, "index")),
                    question |-> ParseScalar(Pop(d.d, "question")),
                    filters |-> MemoryQuery_parse_filters(Pop(d.d, "filters")),
                    min_relevance |-> Pop(d.d, "minRelevance"),
                    stream |-> Pop(d.d, "stream"),
                    args |-> MemoryQuery_parse_args(Pop(d.d, "args"))])

----------------------------------------------------------------------------
(* DataPipelineStatus *)

DataPipelineStatus_parse_tags(data) ==
    TryDict(data, TagsType0_from_dict("DataPipelineStatusTagsType0", data))

DataPipelineStatus_parse_steps(data) == TryListOfStr(data)

DataPipelineStatus_to_dict(self) ==
    LET tags == EncodeDict(self.d.tags, "DataPipelineStatusTagsType0", TagsType0_to_dict(self.d.tags))
        creation == EncodeDateTime(self.d.creation)
        last_update == EncodeDateTime(self.d.last_update)
    IN  FirstRaise(<<tags, creation, last_update>>,
            PyDict(FieldDict(<< <<"completed", self.d.completed>>,
                                <<"empty", self.d.empty>>,
                                <<"index", self.d.index>>,
                                <<"document_id", self.d.document_id>>,
                                <<"tags", tags>>,
                                <<"creation", creation>>,
                                <<"last_update", last_update>>,
                                <<"steps", self.d.steps>>,
                                <<"remaining_steps", self.d.remaining_steps>>,
                                <<"completed_steps", self.d.completed_steps>> >>)))

DataPipelineStatus_from_dict(src_dict) ==
    LET d == DictOf(src_dict)
        creation == DecodeDateTime(Pop(d.d, "creation"))
        last_update == DecodeDateTime(Pop(d.d, "last_update"))
    IN  IF IsRaise(d) THEN d
        ELSE FirstRaise(<<creation, last_update>>,
                Model("DataPipelineStatus",
                      [completed |-> Pop(d.d, "completed"),
                       empty |-> Pop(d.d, "empty"),
                       index |-> ParseScalar(Pop(d.d, "index")),
                       document_id |-> ParseScalar(Pop(d.d, "document_id")),
                       tags |-> DataPipelineStatus_parse_tags(Pop(d.d, "tags")),
                       creation |-> creation,
                       last_update |-> last_update,
                       steps |-> DataPipelineStatus_parse_steps(Pop(d.d, "steps")),
                       remaining_steps |->
                           DataPipelineStatus_parse_steps(Pop(d.d, "remaining_steps")),
                       completed_steps |->
                           DataPipelineStatus_parse_steps(Pop(d.d, "completed_steps"))]))

----------------------------------------------------------------------------
(* ProblemDetails: the open model *)

ProblemDetailsWireNames == {"type", "title", "status", "detail", "instance"}

\* mutant: on a key collision the captured value is written
ProblemDetails_to_dict_CapturedWins(self) ==
    PyDict(Update(FieldDict(<< <<"type", self.d.type_>>,
                               <<"title", self.d.title>>,
                               <<"status", self.d.status>>,
                               <<"detail", self.d.detail>>,
                               <<"instance", self.d.instance>> >>),
                  self.d.additional_properties.d))

\* mutant: the captured fields are not written
ProblemDetails_to_dict_DeclaredOnly(self) ==
    PyDict(FieldDict(<< <<"type", self.d.type_>>,
                        <<"title", self.d.title>>,
                        <<"status", self.d.status>>,
                        <<"detail", self.d.detail>>,
                        <<"instance", self.d.instance>> >>))

ProblemDetails_to_dict(self) ==
    PyDict(Update(self.d.additional_properties.d,
                  FieldDict(<< <<"type", self.d.type_>>,
                               <<"title", self.d.title>>,
                               <<"status", self.d.status>>,
                               <<"detail", self.d.detail>>,
                               <<"instance", self.d.instance>> >>)))

ProblemDetails_from_dict(src_dict) ==
    LET d == DictOf(src_dict)
    IN  IF IsRaise(d) THEN d
        ELSE Model("ProblemDetails",
                   [type_ |-> ParseScalar(Pop(d.d, "type")),
                    title |-> ParseScalar(Pop(d.d, "title")),
                    status |-> ParseScalar(Pop(d.d, "status")),
                    detail |-> ParseScalar(Pop(d.d, "detail")),
                    instance |-> ParseScalar(Pop(d.d, "instance")),
                    additional_properties |-> PyDict(Rest(d.d, ProblemDetailsWireNames))])

\* self[key] = value: self.additional_properties[key] = value
ProblemDetails_setitem(self, key, value) ==
    [self EXCEPT !.d.additional_properties =
        PyDict(Update(self.d.additional_properties.d, (key :> value)))]

\* mutant: a key that is not captured reads as None
ProblemDetails_getitem_Default(self, key) ==
    IF key \in DOMAIN self.d.additional_properties.d
    THEN self.d.additional_properties.d[key]
    ELSE PyNone

\* self[key]: self.additional_properties[key], KeyError for a missing key
ProblemDetails_getitem(self, key) ==
    IF key \in DOMAIN self.d.additional_properties.d
    THEN self.d.additional_properties.d[key]
    ELSE Raise("KeyError")

\* mutant: every captured key is removed
ProblemDetails_delitem_Clear(self, key) ==
    IF key \in DOMAIN self.d.additional_properties.d
    THEN [self EXCEPT !.d.additional_properties = PyDict(EmptyD)]
    ELSE Raise("KeyError")

\* del self[key]: del self.additional_properties[key]; gives self after the
\* statement, or the KeyError raised for a missing key
ProblemDetails_delitem(self, key) ==
    IF key \in DOMAIN self.d.additional_properties.d
    THEN [self EXCEPT !.d.additional_properties =
             PyDict(Rest(self.d.additional_properties.d, {key}))]
    ELSE Raise("KeyError")

\* additional_keys: list(self.additional_properties.keys()), as a set
ProblemDetails_additional_keys(self) == DOMAIN self.d.additional_properties.d

\* key in self: key in self.additional_properties
ProblemDetails_contains(self, key) == key \in DOMAIN self.d.additional_properties.d

\* mutant: from_dict works on the caller's object itself
CallerObject_Aliased(src_dict, d) == d

\* the caller's wire object once from_dict, or a later item operation on the
\* model, has brought its own dict to d: 'd = dict(src_dict)' made d a new
\* object, so the caller's object stays as it was
CallerObject(src_dict, d) == src_dict

----------------------------------------------------------------------------
(* Dispatch on the class *)

ModelClasses ==
    {"UploadAccepted", "SearchQuery", "MemoryQuery", "SearchResult", "MemoryAnswer",
     "Citation", "Partition", "TokenUsage", "DataPipelineStatus", "IndexCollection",
     "ProblemDetails"}

to_dict(self) ==
    CASE self.s = "UploadAccepted" -> UploadAccepted_to_dict(self)
      [] self.s = "SearchQuery" -> SearchQuery_to_dict(self)
      [] self.s = "MemoryQuery" -> MemoryQuery_to_dict(self)
      [] self.s = "SearchResult" -> SearchResult_to_dict(self)
      [] self.s = "MemoryAnswer" -> MemoryAnswer_to_dict(self)
      [] self.s = "Citation" -> Citation_to_dict(self)
      [] self.s = "Partition" -> Partition_to_dict(self)
      [] self.s = "TokenUsage" -> TokenUsage_to_dict(self)
      [] self.s = "DataPipelineStatus" -> DataPipelineStatus_to_dict(self)
      [] self.s = "IndexCollection" -> IndexCollection_to_dict(self)
      [] self.s = "ProblemDetails" -> ProblemDetails_to_dict(self)

from_dict(cls, src_dict) ==
    CASE cls = "UploadAccepted" -> UploadAccepted_from_dict(src_dict)
      [] cls = "SearchQuery" -> SearchQuery_from_dict(src_dict)
      [] cls = "MemoryQuery" -> MemoryQuery_from_dict(src_dict)
      [] cls = "SearchResult" -> SearchResult_from_dict(src_dict)
      [] cls = "MemoryAnswer" -> MemoryAnswer_from_dict(src_dict)
      [] cls = "Citation" -> Citation_from_dict(src_dict)
      [] cls = "Partition" -> Partition_from_dict(src_dict)
      [] cls = "TokenUsage" -> TokenUsage_from_dict(src_dict)
      [] cls = "DataPipelineStatus" -> DataPipelineStatus_from_dict(src_dict)
      [] cls = "IndexCollection" -> IndexCollection_from_dict(src_dict)
      [] cls = "ProblemDetails" -> ProblemDetails_from_dict(src_dict)

----------------------------------------------------------------------------
(* The declared fields of each model: attribute, wire key as from_dict reads *)
(* it, kind of value, and the class of the nested model if any.            *)

F(attr, key, kind, of) == [attr |-> attr, key |-> key, kind |-> kind, of |-> of]

Schema(cls) ==
    CASE cls = "UploadAccepted" ->
            << F("index", "index", "str", ""), F("document_id", "documentId", "str", ""),
               F("message", "message", "str", "") >>
      [] cls = "SearchQuery" ->
            << F("index", "index", "str", ""), F("query", "query", "str", ""),
               F("filters", "filters", "listmodel", "SearchQueryFiltersType0Item"),
               F("min_relevance", "minRelevance", "float", ""),
               F("limit", "limit", "int", ""),
               F("args", "args", "dictmodel", "SearchQueryArgsType0") >>
      [] cls = "MemoryQuery" ->
            << F("index", "index", "str", ""), F("question", "question", "str", ""),
               F("filters", "filters", "listmodel", "MemoryQueryFiltersType0Item"),
               F("min_relevance", "minRelevance", "float", ""),
               F("stream", "stream", "bool", ""),
               F("args", "args", "dictmodel", "MemoryQueryArgsType0") >>
      [] cls = "SearchResult" ->
            << F("query", "query", "str", ""), F("no_result", "noResult", "bool", ""),
               F("results", "results", "listmodel", "Citation") >>
      [] cls = "MemoryAnswer" ->
            << F("stream_state", "streamState", "enum", ""),
               F("question", "question", "str", ""),
               F("no_result", "noResult", "bool", ""),
               F("no_result_reason", "noResultReason", "str", ""),
               F("text", "text", "str", ""),
               F("token_usage", "tokenUsage", "listmodel", "TokenUsage"),
               F("relevant_sources", "relevantSources", "listmodel", "Citation") >>
      [] cls = "Citation" ->
            << F("link", "link", "str", ""), F("index", "index", "str", ""),
               F("document_id", "documentId", "str", ""), F("file_id", "fileId", "str", ""),
               F("source_content_type", "sourceContentType", "str", ""),
               F("source_name", "sourceName", "str", ""),
               F("source_url", "sourceUrl", "str", ""),
               F("partitions", "partitions", "listmodel", "Partition") >>
      [] cls = "Partition" ->
            << F("text", "text", "str", ""), F("relevance", "relevance", "float", ""),
               F("partition_number", "partitionNumber", "int", ""),
               F("section_number", "sectionNumber", "int", ""),
               F("last_update", "lastUpdate", "datetime", ""),
               F("tags", "tags", "dictmodel", "PartitionTagsType0") >>
      [] cls = "TokenUsage" ->
            << F("timestamp", "timestamp", "datetime", ""),
               F("service_type", "serviceType", "str", ""),
               F("model_type", "modelType", "str", ""),
               F("model_name", "modelName", "str", ""),
               F("tokenizer_tokens_in", "tokenizerTokensIn", "int", ""),
               F("tokenizer_tokens_out", "tokenizerTokensOut", "int", ""),
               F("service_tokens_in", "serviceTokensIn", "int", ""),
               F("service_tokens_out", "serviceTokensOut", "int", ""),
               F("service_reasoning_tokens", "serviceReasoningTokens", "int", "") >>
      [] cls = "DataPipelineStatus" ->
            << F("completed", "completed", "bool", ""), F("empty", "empty", "bool", ""),
               F("index", "index", "str", ""), F("document_id", "document_id", "str", ""),
               F("tags", "tags", "dictmodel", "DataPipelineStatusTagsType0"),
               F("creation", "creation", "datetime", ""),
               F("last_update", "last_update", "datetime", ""),
               F("steps", "steps", "liststr", ""),
               F("remaining_steps", "remaining_steps", "liststr", ""),
               F("completed_steps", "completed_steps", "liststr", "") >>
      [] cls = "IndexCollection" ->
            << F("results", "results", "listmodel", "IndexDetails") >>
      [] cls = "ProblemDetails" ->
            << F("type_", "type", "str", ""), F("title", "title", "str", ""),
               F("status", "status", "int", ""), F("detail", "detail", "str", ""),
               F("instance", "instance", "str", "") >>
      [] cls = "IndexDetails" -> << F("name", "name", "str", "") >>

Fields(cls) == {Schema(cls)[i] : i \in 1..Len(Schema(cls))}
FieldOfAttr(cls, attr) == CHOOSE f \in Fields(cls) : f.attr = attr
FieldOfKey(cls, key) == CHOOSE f \in Fields(cls) : f.key = key
Attrs(cls) == {f.attr : f \in Fields(cls)}
WireKeys(cls) == {f.key : f \in Fields(cls)}
IsOpen(cls) == cls = "ProblemDetails"

\* cls(): every declared attribute at its default UNSET; the open model also
\* starts with an empty additional_properties
NewModel(cls, given) ==
    Model(cls,
          [a \in Attrs(cls) \cup (IF IsOpen(cls) THEN {"additional_properties"} ELSE {}) |->
              IF a \in DOMAIN given THEN given[a]
              ELSE IF a = "additional_properties" THEN PyDict(EmptyD) ELSE UNSET])

----------------------------------------------------------------------------
(* Bounded inputs: the model instances a caller can build and the wire       *)
(* objects a server can send.                                                *)

MaxList == 2    \* longest list in a list-valued field
MaxSet == 2     \* most fields set at once (besides the fully populated object)

SeqsUpTo(S, n) == UNION {[1..k -> S] : k \in 0..n}

Extend(g, a, v) == [x \in DOMAIN g \cup {a} |-> IF x = a THEN v ELSE g[x]]

TagMap == [tag |-> PyList(<<PyStr("v")>>)]
TagsModel(of) == Model(of, [additional_properties |-> PyDict(TagMap)])
ArgsModel(of) == Model(of, [additional_properties |-> PyDict([k |-> PyStr("v")])])
IsArgsClass(of) == of \in {"SearchQueryArgsType0", "MemoryQueryArgsType0"}

GoodPartition ==
    NewModel("Partition",
             [text |-> PyStr("text"), last_update |-> DateTime("2024-05-01T10:00:00"),
              tags |-> TagsModel("PartitionTagsType0")])

SampleInst(of) ==
    CASE of = "Partition" -> {NewModel("Partition", EmptyD), GoodPartition}
      [] of = "Citation" ->
            {NewModel("Citation", EmptyD),
             NewModel("Citation", [document_id |-> PyStr("doc"),
                                   partitions |-> PyList(<<GoodPartition>>)])}
      [] of = "TokenUsage" ->
            {NewModel("TokenUsage", EmptyD),
             NewModel("TokenUsage", [timestamp |-> DateTime("2025-01-02T03:04:05+00:00"),
                                     service_tokens_in |-> PyInt("3")])}
      [] of = "IndexDetails" ->
            {NewModel("IndexDetails", EmptyD), NewModel("IndexDetails", [name |-> PyStr("idx")])}
      [] OTHER -> {Model(of, [additional_properties |-> PyDict(EmptyD)]), TagsModel(of)}

\* the values an attribute of the given field can hold besides UNSET
InstVals(f) ==
    CASE f.kind = "str" -> {PyNone, PyStr(f.attr)}
      [] f.kind = "bool" -> {PyNone, PyBool("true"), PyBool("false")}
      [] f.kind = "int" -> {PyNone, PyInt("3")}
      [] f.kind = "float" -> {PyNone, PyFloat("0.5")}
      [] f.kind = "datetime" -> {DateTime(c) : c \in IsoCanonical}
      [] f.kind = "enum" -> {Enum(x) : x \in StreamStatesValues}
      [] f.kind = "dictmodel" ->
            {PyNone, IF IsArgsClass(f.of) THEN ArgsModel(f.of) ELSE TagsModel(f.of)}
      [] f.kind = "listmodel" ->
            {PyNone} \cup {PyList(q) : q \in SeqsUpTo(SampleInst(f.of), MaxList)}
      [] f.kind = "liststr" ->
            {PyNone} \cup {PyList(q) : q \in SeqsUpTo({PyStr("extract"), PyStr("index")}, MaxList)}
      [] f.kind = "captured" ->
            {PyDict([traceId |-> PyStr("x")]),
             PyDict([traceId |-> PyStr("x"), errors |-> PyDict([f1 |-> PyList(<<PyStr("e")>>)])])}

CapturedField == F("additional_properties", "", "captured", "")
InstFields(cls) == Fields(cls) \cup (IF IsOpen(cls) THEN {CapturedField} ELSE {})

RECURSIVE InstAssign(_)
InstAssign(fs) ==
    IF fs = {} THEN {EmptyD}
    ELSE LET f == CHOOSE x \in fs : TRUE
         IN  {Extend(g, f.attr, v) : g \in InstAssign(fs \ {f}), v \in InstVals(f)}

FullInst(cls) ==
    NewModel(cls, [a \in {f.attr : f \in InstFields(cls)} |->
        LET f == CHOOSE x \in InstFields(cls) : x.attr = a
        IN  CHOOSE v \in InstVals(f) : v.t # "None" /\ (v.t = "list" => Len(v.l) = MaxList)])

\* SearchQuery(index="default", query="test", min_relevance=0.5, limit=3)
ExampleSearchQuery ==
    NewModel("SearchQuery", [index |-> PyStr("default"), query |-> PyStr("test"),
                             min_relevance |-> PyFloat("0.5"), limit |-> PyInt("3")])

\* the sets of fields a caller sets together
InstFieldSets(cls) == {x \in SUBSET InstFields(cls) : Cardinality(x) <= MaxSet}

\* the instances with exactly the fields fs set; with them, for no field, the
\* fully populated instance and the example of the documentation
Instances(cls, fs) ==
    {NewModel(cls, g) : g \in InstAssign(fs)} \cup
    (IF fs # {} THEN {}
     ELSE {FullInst(cls)} \cup (IF cls = "SearchQuery" THEN {ExampleSearchQuery} ELSE {}))

WireTagMap == PyDict(TagMap)
GoodWirePartition ==
    PyDict([text |-> PyStr("text"), lastUpdate |-> PyStr("2024-05-01T10:00:00"),
            tags |-> WireTagMap])
BadWirePartition == PyDict([lastUpdate |-> PyStr("not-a-date")])

WireSample(of) ==
    CASE of = "Partition" -> {GoodWirePartition, BadWirePartition}
      [] of = "Citation" ->
            {PyDict([documentId |-> PyStr("doc"), partitions |-> PyList(<<GoodWirePartition>>)]),
             PyDict([partitions |-> PyList(<<BadWirePartition>>)]),
             PyInt("5")}
      [] of = "TokenUsage" ->
            {PyDict([timestamp |-> PyStr("2025-01-02T03:04:05Z"), serviceTokensIn |-> PyInt("3")]),
             PyDict([timestamp |-> PyStr("not-a-date")])}
      [] of = "IndexDetails" -> {PyDict([name |-> PyStr("idx")]), PyInt("5")}
      [] OTHER -> {WireTagMap, PyDict([tag |-> PyStr("plain")])}

\* the JSON values a server can send under the key of the given field
WireVals(f) ==
    CASE f.kind = "str" -> {PyNone, PyStr(f.key), PyInt("7")}
      [] f.kind = "bool" -> {PyNone, PyBool("true")}
      [] f.kind = "int" -> {PyNone, PyInt("3")}
      [] f.kind = "float" -> {PyNone, PyFloat("0.5")}
      [] f.kind = "datetime" ->
            {PyNone, PyStr("2024-05-01T10:00:00"), PyStr("2024-05-01T10:00"), PyStr("not-a-date")}
      [] f.kind = "enum" -> {PyNone, PyStr("append"), PyStr("bogus")}
      [] f.kind = "dictmodel" ->
            {PyNone, PyStr("raw"), PyDict(EmptyD), WireTagMap, PyDict([tag |-> PyStr("plain")])}
      [] f.kind = "listmodel" ->
            {PyNone, PyStr("raw"), PyDict([k |-> PyStr("v")])}
                \cup {PyList(q) : q \in SeqsUpTo(WireSample(f.of), MaxList)}
      [] f.kind = "liststr" ->
            {PyNone, PyStr("raw")}
                \cup {PyList(q) : q \in SeqsUpTo({PyStr("extract"), PyInt("7")}, MaxList)}
      [] f.kind = "undeclared" -> {PyStr("x"), PyNone}
      [] f.kind = "extension" -> {PyDict([f1 |-> PyList(<<PyStr("e")>>)])}

UndeclaredField == F("", "traceId", "undeclared", "")

\* a second undeclared key, sent with problem bodies
ExtensionField == F("", "errors", "extension", "")

WireFields(cls) ==
    Fields(cls) \cup {UndeclaredField} \cup (IF IsOpen(cls) THEN {ExtensionField} ELSE {})

RECURSIVE WireAssign(_)
WireAssign(fs) ==
    IF fs = {} THEN {EmptyD}
    ELSE LET f == CHOOSE x \in fs : TRUE
         IN  {Extend(g, f.key, v) : g \in WireAssign(fs \ {f}), v \in WireVals(f)}

\* a well-formed object with every declared key present
FullWire(cls) ==
    PyDict([k \in WireKeys(cls) |->
        LET f == FieldOfKey(cls, k)
        IN  CHOOSE v \in WireVals(f) :
                /\ v.t # "None"
                /\ v.t = "int" => f.kind = "int"
                /\ v.s \notin {"raw", "not-a-date", "bogus"}
                /\ v.t = "list" => Len(v.l) = 0
                /\ v.t = "dict" => v = WireTagMap])

\* a problem object with every declared key and both undeclared keys
FullProblemWire ==
    PyDict(Update(FullWire("ProblemDetails").d,
                  [traceId |-> PyStr("x"), errors |-> PyDict([f1 |-> PyList(<<PyStr("e")>>)])]))

\* the sets of keys a server sends together
WireFieldSets(cls) == {x \in SUBSET WireFields(cls) : Cardinality(x) <= MaxSet}

\* the wire objects with exactly the keys of fs; with them, for no key, the
\* well-formed object with every declared key
WireObjects(cls, fs) ==
    {PyDict(g) : g \in WireAssign(fs)} \cup
    (IF fs # {} THEN {}
     ELSE {FullWire(cls)} \cup (IF IsOpen(cls) THEN {FullProblemWire} ELSE {}))

----------------------------------------------------------------------------
(* Response dispatch: the api modules                                       *)

\* the keyword arguments a Client is built with that the dispatch reads
Client(raise_on_unexpected_status) ==
    [raise_on_unexpected_status |-> raise_on_unexpected_status]

PyBytes(s) == V("bytes", s, <<>>, EmptyD)

\* errors.UnexpectedStatus(status_code, content)
UnexpectedStatus(status_code, content) ==
    V("raise", "UnexpectedStatus", <<>>,
      [status_code |-> PyInt(ToString(status_code)), content |-> PyBytes(content)])

\* types.Response(status_code, content, headers, parsed)
Response(status_code, content, headers, parsed) ==
    V("Response", "", <<>>,
      [status_code |-> status_code, content |-> PyBytes(content),
       headers |-> headers, parsed |-> parsed])

\* the members of http.HTTPStatus among the codes a server is taken to answer with
HTTPStatusMembers == {200, 202, 400, 401, 403, 404, 413, 418, 500, 503}

\* HTTPStatus(code): the enum lookup by value
HTTPStatus(code) ==
    IF code \in HTTPStatusMembers THEN V("HTTPStatus", ToString(code), <<>>, EmptyD)
    ELSE Raise("ValueError")

\* The JSON documents among the bodies a server is taken to send, each with
\* the value json.loads gives for it.
JsonText ==
    [c \in {"5", "\"gateway\"", "[]", "{}",
            "{\"index\":\"default\",\"documentId\":\"doc1\",\"title\":\"Denied\",\"status\":401,\"traceId\":\"t1\"}",
            "{\"creation\":\"not-a-date\",\"streamState\":\"bogus\"}"} |->
        CASE c = "5" -> PyInt("5")
          [] c = "\"gateway\"" -> PyStr("gateway")
          [] c = "[]" -> PyList(<<>>)
          [] c = "{}" -> PyDict(EmptyD)
          [] c = "{\"creation\":\"not-a-date\",\"streamState\":\"bogus\"}" ->
                PyDict([creation |-> PyStr("not-a-date"), streamState |-> PyStr("bogus")])
          [] OTHER ->
                PyDict([index |-> PyStr("default"), documentId |-> PyStr("doc1"),
                        title |-> PyStr("Denied"), status |-> PyInt("401"),
                        traceId |-> PyStr("t1")])]

\* response.json(): the body parsed as JSON; raises when it is not JSON
json(response) ==
    IF response.content \in DOMAIN JsonText THEN JsonText[response.content]
    ELSE Raise("JSONDecodeError")

\* params = {k: v for k, v in params.items() if v is not UNSET and v is not None}
FilterParams(params) ==
    [k \in {x \in DOMAIN params : params[x].t \notin {"Unset", "None"}} |-> params[k]]

\* body.to_multipart() of UploadDocumentBody: the parts of the form
UploadDocumentBody_to_multipart(body) == V("multipart", "", <<>>, body.d)

answer_question_get_kwargs(body) ==
    FirstRaise(<<MemoryQuery_to_dict(body)>>,
        PyDict([method |-> PyStr("post"), url |-> PyStr("/ask"),
                json |-> MemoryQuery_to_dict(body),
                headers |-> PyDict(("Content-Type" :> PyStr("application/json")))]))

\* mutant: an UNSET index is sent as an empty string
check_document_status_get_kwargs_EmptyString(index, document_id) ==
    PyDict([method |-> PyStr("get"), url |-> PyStr("/upload-status"),
            params |-> PyDict([index |-> IF IsUnset(index) THEN PyStr("") ELSE index,
                               documentId |-> document_id])])

check_document_status_get_kwargs(index, document_id) ==
    PyDict([method |-> PyStr("get"), url |-> PyStr("/upload-status"),
            params |-> PyDict(FilterParams([index |-> index, documentId |-> document_id]))])

delete_document_by_id_get_kwargs(index, document_id) ==
    PyDict([method |-> PyStr("delete"), url |-> PyStr("/documents"),
            params |-> PyDict(FilterParams([index |-> index, documentId |-> document_id]))])

delete_index_by_name_get_kwargs(index) ==
    PyDict([method |-> PyStr("delete"), url |-> PyStr("/indexes"),
            params |-> PyDict(FilterParams([index |-> index]))])

list_indexes_get_kwargs == PyDict([method |-> PyStr("get"), url |-> PyStr("/indexes")])

upload_document_get_kwargs(body) ==
    PyDict([method |-> PyStr("post"), url |-> PyStr("/upload"),
            files |-> UploadDocumentBody_to_multipart(body),
            headers |-> PyDict(EmptyD)])

\* _get_kwargs of the api module named, with the arguments the module takes
get_kwargs(endpoint, args) ==
    CASE endpoint = "answer_question" -> answer_question_get_kwargs(args.body)
      [] endpoint = "check_document_status" ->
            check_document_status_get_kwargs(args.index, args.document_id)
      [] endpoint = "delete_document_by_id" ->
            delete_document_by_id_get_kwargs(args.index, args.document_id)
      [] endpoint = "delete_index_by_name" -> delete_index_by_name_get_kwargs(args.index)
      [] endpoint = "list_indexes" -> list_indexes_get_kwargs
      [] endpoint = "upload_document" -> upload_document_get_kwargs(args.body)

\* the last statements of every _parse_response
Unexpected(client, response) ==
    IF client.raise_on_unexpected_status
    THEN UnexpectedStatus(response.status_code, response.content)
    ELSE PyNone

\* mutant: the problem statuses have no branch
answer_question_parse_response_NoProblem(client, response) ==
    CASE response.status_code = 200 -> MemoryAnswer_from_dict(json(response))
      [] OTHER -> Unexpected(client, response)

answer_question_parse_response(client, response) ==
    CASE response.status_code = 200 -> MemoryAnswer_from_dict(json(response))
      [] response.status_code = 401 -> ProblemDetails_from_dict(json(response))
      [] response.status_code = 403 -> ProblemDetails_from_dict(json(response))
      [] response.status_code = 503 -> ProblemDetails_from_dict(json(response))
      [] OTHER -> Unexpected(client, response)

check_document_status_parse_response(client, response) ==
    CASE response.status_code = 200 -> DataPipelineStatus_from_dict(json(response))
      [] response.status_code = 400 -> ProblemDetails_from_dict(json(response))
      [] response.status_code = 401 -> ProblemDetails_from_dict(json(response))
      [] response.status_code = 403 -> ProblemDetails_from_dict(json(response))
      [] response.status_code = 404 -> ProblemDetails_from_dict(json(response))
      [] response.status_code = 413 -> ProblemDetails_from_dict(json(response))
      [] OTHER -> Unexpected(client, response)

delete_document_by_id_parse_response(client, response) ==
    CASE response.status_code = 202 -> DeleteAccepted_from_dict(json(response))
      [] response.status_code = 401 -> ProblemDetails_from_dict(json(response))
      [] response.status_code = 403 -> ProblemDetails_from_dict(json(response))
      [] OTHER -> Unexpected(client, response)

delete_index_by_name_parse_response(client, response) ==
    CASE response.status_code = 202 -> DeleteAccepted_from_dict(json(response))
      [] response.status_code = 401 -> ProblemDetails_from_dict(json(response))
      [] response.status_code = 403 -> ProblemDetails_from_dict(json(response))
      [] OTHER -> Unexpected(client, response)

list_indexes_parse_response(client, response) ==
    CASE response.status_code = 200 -> IndexCollection_from_dict(json(response))
      [] response.status_code = 401 -> ProblemDetails_from_dict(json(response))
      [] response.status_code = 403 -> ProblemDetails_from_dict(json(response))
      [] OTHER -> Unexpected(client, response)

\* mutant: no branch for status 200
upload_document_parse_response_No200(client, response) ==
    CASE response.status_code = 202 -> UploadAccepted_from_dict(json(response))
      [] response.status_code \in {400, 401, 403, 503} -> ProblemDetails_from_dict(json(response))
      [] OTHER -> Unexpected(client, response)

\* status 200: response_200 = cast(Any, None), returned without reading the body
upload_document_parse_response(client, response) ==
    CASE response.status_code = 200 -> PyNone
      [] response.status_code = 202 -> UploadAccepted_from_dict(json(response))
      [] response.status_code = 400 -> ProblemDetails_from_dict(json(response))
      [] response.status_code = 401 -> ProblemDetails_from_dict(json(response))
      [] response.status_code = 403 -> ProblemDetails_from_dict(json(response))
      [] response.status_code = 503 -> ProblemDetails_from_dict(json(response))
      [] OTHER -> Unexpected(client, response)

Endpoints ==
    {"answer_question", "check_document_status", "delete_document_by_id",
     "delete_index_by_name", "list_indexes", "upload_document"}

\* _parse_response of the api module named
parse_response(endpoint, client, response) ==
    CASE endpoint = "answer_question" -> answer_question_parse_response(client, response)
      [] endpoint = "check_document_status" -> check_document_status_parse_response(client, response)
      [] endpoint = "delete_document_by_id" -> delete_document_by_id_parse_response(client, response)
      [] endpoint = "delete_index_by_name" -> delete_index_by_name_parse_response(client, response)
      [] endpoint = "list_indexes" -> list_indexes_parse_response(client, response)
      [] endpoint = "upload_document" -> upload_document_parse_response(client, response)

\* mutant: a body that fails to decode gives an empty parsed result
build_response_Downgrade(endpoint, client, response) ==
    IF IsRaise(HTTPStatus(response.status_code)) THEN HTTPStatus(response.status_code)
    ELSE Response(HTTPStatus(response.status_code), response.content, response.headers,
                  IF IsRaise(parse_response(endpoint, client, response))
                     /\ parse_response(endpoint, client, response).s # "UnexpectedStatus"
                  THEN PyNone
                  ELSE parse_response(endpoint, client, response))

\* _build_response (the same in every api module): the keyword arguments of
\* Response(...) are evaluated in the order written, HTTPStatus(...) first and
\* _parse_response(...) last; the first exception raised leaves the function.
build_response(endpoint, client, response) ==
    FirstRaise(<<HTTPStatus(response.status_code), parse_response(endpoint, client, response)>>,
               Response(HTTPStatus(response.status_code), response.content, response.headers,
                        parse_response(endpoint, client, response)))

\* mutant: the exception of the transport is caught and an empty response is built
sync_detailed_Catch(endpoint, client, exc, response) ==
    IF exc # "" THEN Response(HTTPStatus(500), "", response.headers, PyNone)
    ELSE build_response(endpoint, client, response)

\* sync_detailed: exc is the exception client.get_httpx_client().request(...)
\* raised ("" when it returned response); nothing catches it.
sync_detailed(endpoint, client, exc, response) ==
    IF exc # "" THEN Raise(exc) ELSE build_response(endpoint, client, response)

\* .parsed of the Response a detailed call returned
Parsed(detailed) == IF IsRaise(detailed) THEN detailed ELSE detailed.d.parsed

\* sync: sync_detailed(...).parsed
sync(endpoint, client, exc, response) ==
    Parsed(sync_detailed(endpoint, client, exc, response))

\* mutant: the awaitable variant decodes without looking at the status code
asyncio_detailed_OwnDecode(endpoint, client, exc, response) ==
    IF exc # "" THEN Raise(exc)
    ELSE Response(HTTPStatus(200), response.content, response.headers,
                  parse_response(endpoint, client, response))

\* mutant: a cancellation is caught and the response is decoded all the same
asyncio_detailed_Shielded(endpoint, client, exc, response) ==
    IF exc \in {"TimeoutException", "ConnectError"} THEN Raise(exc)
    ELSE build_response(endpoint, client, response)

\* asyncio_detailed: exc is the exception the awaited
\* client.get_async_httpx_client().request(...) raised ("" when it returned
\* response); nothing catches it.
asyncio_detailed(endpoint, client, exc, response) ==
    IF exc # "" THEN Raise(exc) ELSE build_response(endpoint, client, response)

\* asyncio: (await asyncio_detailed(...)).parsed
asyncio(endpoint, client, exc, response) ==
    Parsed(asyncio_detailed(endpoint, client, exc, response))

----------------------------------------------------------------------------
(* The codec scenario: a caller builds a model and encodes it (and the wire  *)
(* object is decoded again), or a wire object arrives and is decoded (and    *)
(* the model is encoded again).                                              *)

\* an item operation on a ProblemDetails, with what it returned or raised
ItemOp(op, key, value, ret) == [op |-> op, key |-> key, value |-> value, ret |-> ret]
NoOp == ItemOp("", "", NoVal, NoVal)

CodecInit ==
    /\ cstep = "start"
    /\ cmodel = NoVal
    /\ cwire = NoVal
    /\ corig = NoVal
    /\ ccls = ""
    /\ cop = NoOp

\* d of from_dict once the keys of the declared fields were popped
Popped(cls, src_dict) ==
    IF src_dict.t = "dict" THEN PyDict(Rest(src_dict.d, WireKeys(cls))) ELSE src_dict

\* the caller constructs an instance of a model class
Construct ==
    /\ cstep = "start"
    /\ \E cls \in ModelClasses : \E fs \in InstFieldSets(cls) : \E m \in Instances(cls, fs) :
          /\ ccls' = cls
          /\ cmodel' = m
          /\ corig' = m
    /\ cwire' = NoVal
    /\ cstep' = "built"
    /\ UNCHANGED cop
    /\ UNCHANGED <<rvars, pvars, kvars, svars, mvars>>

\* m.to_dict() on the instance built
ToDict ==
    /\ cstep = "built"
    /\ cwire' = to_dict(cmodel)
    /\ cstep' = "encoded"
    /\ UNCHANGED <<cmodel, corig, ccls, cop>>
    /\ UNCHANGED <<rvars, pvars, kvars, svars, mvars>>

\* cls.from_dict() on the wire object just encoded
FromDictBack ==
    /\ cstep = "encoded"
    /\ ~IsRaise(cwire)
    /\ cmodel' = from_dict(ccls, cwire)
    /\ cwire' = CallerObject(cwire, Popped(ccls, cwire))
    /\ cstep' = "redecoded"
    /\ UNCHANGED <<corig, ccls, cop>>
    /\ UNCHANGED <<rvars, pvars, kvars, svars, mvars>>

\* a wire object arrives for a model class
Receive ==
    /\ cstep = "start"
    /\ \E cls \in ModelClasses : \E fs \in WireFieldSets(cls) : \E w \in WireObjects(cls, fs) :
          /\ ccls' = cls
          /\ cwire' = w
          /\ corig' = w
    /\ cmodel' = NoVal
    /\ cstep' = "received"
    /\ UNCHANGED cop
    /\ UNCHANGED <<rvars, pvars, kvars, svars, mvars>>

\* cls.from_dict() on the wire object received
FromDict ==
    /\ cstep = "received"
    /\ cmodel' = from_dict(ccls, cwire)
    /\ cwire' = CallerObject(cwire, Popped(ccls, cwire))
    /\ cstep' = "decoded"
    /\ UNCHANGED <<corig, ccls, cop>>
    /\ UNCHANGED <<rvars, pvars, kvars, svars, mvars>>

\* the keys and values a caller stores in a decoded ProblemDetails: two
\* declared wire names and an undeclared one
ItemKeys == {"title", "status", "traceId"}
ItemValues == {PyStr("captured")}

\* problem[key] = value on the ProblemDetails decoded
SetItem ==
    /\ cstep \in {"decoded", "edited"}
    /\ IsInstance(cmodel, "ProblemDetails")
    /\ \E key \in ItemKeys : \E value \in ItemValues :
          /\ cmodel' = ProblemDetails_setitem(cmodel, key, value)
          /\ cop' = ItemOp("setitem", key, value, PyNone)
    /\ cwire' = CallerObject(cwire, cmodel'.d.additional_properties)
    /\ cstep' = "edited"
    /\ UNCHANGED <<corig, ccls>>
    /\ UNCHANGED <<rvars, pvars, kvars, svars, mvars>>

\* del problem[key] on the ProblemDetails decoded
DelItem ==
    /\ cstep \in {"decoded", "edited"}
    /\ IsInstance(cmodel, "ProblemDetails")
    /\ \E key \in ItemKeys :
          IF IsRaise(ProblemDetails_delitem(cmodel, key))
          THEN /\ cop' = ItemOp("delitem", key, NoVal, ProblemDetails_delitem(cmodel, key))
               /\ UNCHANGED <<cmodel, cwire>>
          ELSE /\ cop' = ItemOp("delitem", key, NoVal, PyNone)
               /\ cmodel' = ProblemDetails_delitem(cmodel, key)
               /\ cwire' = CallerObject(cwire, cmodel'.d.additional_properties)
    /\ cstep' = "edited"
    /\ UNCHANGED <<corig, ccls>>
    /\ UNCHANGED <<rvars, pvars, kvars, svars, mvars>>

\* problem[key] on the ProblemDetails decoded
GetItem ==
    /\ cstep \in {"decoded", "edited"}
    /\ IsInstance(cmodel, "ProblemDetails")
    /\ \E key \in ItemKeys :
          cop' = ItemOp("getitem", key, NoVal, ProblemDetails_getitem(cmodel, key))
    /\ cstep' = "edited"
    /\ UNCHANGED <<cmodel, cwire, corig, ccls>>
    /\ UNCHANGED <<rvars, pvars, kvars, svars, mvars>>

\* m.to_dict() on the model decoded (and possibly edited since)
ToDictBack ==
    /\ cstep \in {"decoded", "edited"}
    /\ ~IsRaise(cmodel)
    /\ cwire' = to_dict(cmodel)
    /\ cstep' = "reencoded"
    /\ UNCHANGED <<cmodel, corig, ccls, cop>>
    /\ UNCHANGED <<rvars, pvars, kvars, svars, mvars>>

\* ProblemDetails.from_dict() on the wire object just encoded again; the
\* model that was encoded is kept for comparison
FromDictAgain ==
    /\ cstep = "reencoded"
    /\ ccls = "ProblemDetails"
    /\ ~IsRaise(cwire)
    /\ corig' = cmodel
    /\ cmodel' = ProblemDetails_from_dict(cwire)
    /\ cwire' = CallerObject(cwire, Popped(ccls, cwire))
    /\ cstep' = "reread"
    /\ UNCHANGED <<ccls, cop>>
    /\ UNCHANGED <<rvars, pvars, kvars, svars, mvars>>

----------------------------------------------------------------------------
(* The dispatch scenario: a response arrives for an endpoint and the        *)
(* endpoint's _parse_response is applied to it.                             *)

Headers == PyDict([server |-> PyStr("kestrel")])

\* the status codes a server is taken to answer with: the codes of the
\* tables, codes of no table, and a code http.HTTPStatus does not know
Statuses == HTTPStatusMembers \cup {520}

\* the bodies a server is taken to send: the JSON documents and two that are not JSON
Contents == DOMAIN JsonText \cup {"", "<html>Bad Gateway</html>"}

Responses == [status_code : Statuses, content : Contents, headers : {Headers}]

NoResponse == [status_code |-> 0, content |-> "", headers |-> Headers]

Args(index, document_id, body) == [index |-> index, document_id |-> document_id, body |-> body]

NoArgs == Args(NoVal, NoVal, NoVal)

\* the values a caller passes for index (optional, UNSET by default; None is
\* outside the annotation but accepted) and for document_id (required)
IndexArgs == {UNSET, PyNone, PyStr(""), PyStr("default")}
DocumentIdArgs == {PyStr("doc1"), PyStr("")}

\* MemoryQuery(question="test", index="default")
ExampleMemoryQuery ==
    NewModel("MemoryQuery", [question |-> PyStr("test"), index |-> PyStr("default")])

\* UploadDocumentBody with a document id and one file
ExampleUploadBody ==
    Model("UploadDocumentBody", [documentId |-> PyStr("doc1"), file1 |-> PyBytes("content")])

\* the arguments a call of the endpoint is made with
Arguments(endpoint) ==
    CASE endpoint = "answer_question" -> {Args(NoVal, NoVal, ExampleMemoryQuery)}
      [] endpoint = "upload_document" -> {Args(NoVal, NoVal, ExampleUploadBody)}
      [] endpoint = "list_indexes" -> {NoArgs}
      [] endpoint = "delete_index_by_name" -> {Args(i, NoVal, NoVal) : i \in IndexArgs}
      [] OTHER -> {Args(i, d, NoVal) : i \in IndexArgs, d \in DocumentIdArgs}

RoundIdle ==
    /\ rendpoint = ""
    /\ rclient = Client(FALSE)
    /\ rresponse = NoResponse
    /\ rargs = NoArgs

RoundInit ==
    /\ rendpoint \in Endpoints
    /\ rclient \in {Client(b) : b \in BOOLEAN}
    /\ rresponse \in Responses
    /\ rargs \in Arguments(rendpoint)

ParseIdle ==
    /\ pstep = "idle"
    /\ pparsed = NoVal

ParseInit ==
    /\ pstep = "received"
    /\ pparsed = NoVal

\* _parse_response(client=client, response=response)
ParseResponse ==
    /\ pstep = "received"
    /\ pparsed' = parse_response(rendpoint, rclient, rresponse)
    /\ pstep' = "parsed"
    /\ UNCHANGED rvars
    /\ UNCHANGED <<cvars, kvars, svars, mvars>>

----------------------------------------------------------------------------
(* The call scenario: against one server response, a caller makes a         *)
(* blocking call and a caller makes an awaitable call of the same endpoint  *)
(* with the same client.                                                    *)

Variants == {"sync", "asyncio"}

\* the exceptions the transport raises from request(...)
TransportErrors == {"TimeoutException", "ConnectError"}

CallIdle ==
    /\ pc = [v \in Variants |-> "idle"]
    /\ called = [v \in Variants |-> ""]
    /\ sent = [v \in Variants |-> NoVal]
    /\ outcome = [v \in Variants |-> ""]
    /\ result = [v \in Variants |-> NoVal]
    /\ requests = [v \in Variants |-> 0]
    /\ decodes = [v \in Variants |-> 0]
    /\ inflight = {}

\* the function is entered: kwargs = _get_kwargs(...)
Enter(v, function) ==
    /\ rendpoint # ""
    /\ pc[v] = "idle"
    /\ pc' = [pc EXCEPT ![v] = "built"]
    /\ called' = [called EXCEPT ![v] = function]
    /\ sent' = [sent EXCEPT ![v] = get_kwargs(rendpoint, rargs)]
    /\ UNCHANGED <<outcome, result, requests, decodes, inflight, rvars>>
    /\ UNCHANGED <<cvars, pvars, svars, mvars>>

CallSyncDetailed == Enter("sync", "sync_detailed")
CallSync == Enter("sync", "sync")
CallAsyncioDetailed == Enter("asyncio", "asyncio_detailed")
CallAsyncio == Enter("asyncio", "asyncio")

\* mutant: the request is sent again after the first attempt
Request_Retry(v) ==
    /\ pc[v] = "built"
    /\ pc' = [pc EXCEPT ![v] = "sent"]
    /\ requests' = [requests EXCEPT ![v] = @ + 2]
    /\ inflight' = inflight \cup {v}
    /\ UNCHANGED <<called, sent, outcome, result, decodes, rvars>>
    /\ UNCHANGED <<cvars, pvars, svars, mvars>>

\* request(**kwargs) is called on the client's transport, which takes the
\* request; the caller waits for it
Request(v) ==
    /\ pc[v] = "built"
    /\ pc' = [pc EXCEPT ![v] = "sent"]
    /\ requests' = [requests EXCEPT ![v] = @ + 1]
    /\ inflight' = inflight \cup {v}
    /\ UNCHANGED <<called, sent, outcome, result, decodes, rvars>>
    /\ UNCHANGED <<cvars, pvars, svars, mvars>>

\* client.get_httpx_client().request(**kwargs): the thread blocks in the call
SyncRequest == Request("sync")

\* await client.get_async_httpx_client().request(**kwargs): the coroutine is suspended
AsyncioAwait == Request("asyncio")

\* request(...) returns the response or raises, and the blocking call runs to
\* its end: _build_response when a response was returned
SyncReturns ==
    /\ pc["sync"] = "sent"
    /\ \E exc \in {""} \cup TransportErrors :
          /\ outcome' = [outcome EXCEPT !["sync"] = exc]
          /\ result' = [result EXCEPT !["sync"] =
                            IF called["sync"] = "sync"
                            THEN sync(rendpoint, rclient, exc, rresponse)
                            ELSE sync_detailed(rendpoint, rclient, exc, rresponse)]
          /\ decodes' = [decodes EXCEPT !["sync"] = IF exc = "" THEN @ + 1 ELSE @]
    /\ pc' = [pc EXCEPT !["sync"] = "done"]
    /\ inflight' = inflight \ {"sync"}
    /\ UNCHANGED <<called, sent, requests, rvars>>
    /\ UNCHANGED <<cvars, pvars, svars, mvars>>

\* the awaited request(...) completes or raises, and the coroutine runs to its
\* end: _build_response when a response was returned
AsyncioResumes ==
    /\ pc["asyncio"] = "sent"
    /\ \E exc \in {""} \cup TransportErrors :
          /\ outcome' = [outcome EXCEPT !["asyncio"] = exc]
          /\ result' = [result EXCEPT !["asyncio"] =
                            IF called["asyncio"] = "asyncio"
                            THEN asyncio(rendpoint, rclient, exc, rresponse)
                            ELSE asyncio_detailed(rendpoint, rclient, exc, rresponse)]
          /\ decodes' = [decodes EXCEPT !["asyncio"] = IF exc = "" THEN @ + 1 ELSE @]
    /\ pc' = [pc EXCEPT !["asyncio"] = "done"]
    /\ inflight' = inflight \ {"asyncio"}
    /\ UNCHANGED <<called, sent, requests, rvars>>
    /\ UNCHANGED <<cvars, pvars, svars, mvars>>

\* raised inside the awaited request() when the caller cancels the task
CancelledError == "CancelledError"

\* the caller cancels the pending awaitable call: CancelledError is raised at
\* the await, inside the transport's request(), which gives up the request;
\* the exception leaves the coroutine
Cancel ==
    /\ pc["asyncio"] = "sent"
    /\ outcome' = [outcome EXCEPT !["asyncio"] = CancelledError]
    /\ result' = [result EXCEPT !["asyncio"] =
                      IF called["asyncio"] = "asyncio"
                      THEN asyncio(rendpoint, rclient, CancelledError, rresponse)
                      ELSE asyncio_detailed(rendpoint, rclient, CancelledError, rresponse)]
    /\ pc' = [pc EXCEPT !["asyncio"] = "done"]
    /\ inflight' = inflight \ {"asyncio"}
    /\ UNCHANGED <<called, sent, requests, decodes, rvars>>
    /\ UNCHANGED <<cvars, pvars, svars, mvars>>

----------------------------------------------------------------------------
(* The shared-client scenario: two calls made on one client are answered,    *)
(* each with its own response, and decode them concurrently; the decode of a *)
(* problem response is followed statement by statement.                      *)

Calls == {"first", "second"}

ShareIdle ==
    /\ spc = [c \in Calls |-> "idle"]
    /\ sresp = [c \in Calls |-> NoResponse]
    /\ sdict = [c \in Calls |-> NoVal]
    /\ sfields = [c \in Calls |-> <<>>]
    /\ sres = [c \in Calls |-> NoVal]

----------------------------------------------------------------------------
(* The plugin scenario: MemoryPlugin.search is called and the service        *)
(* answers the search request.                                               *)

PluginIdle ==
    /\ mstep = "idle"
    /\ mresponse = [status_code |-> 0, body |-> NoVal]
    /\ mresult = NoVal
    /\ mreturn = NoVal

----------------------------------------------------------------------------
(* Specifications *)

vars == <<cvars, rvars, pvars, kvars, svars, mvars>>

Init == CodecInit /\ RoundIdle /\ ParseIdle /\ CallIdle /\ ShareIdle /\ PluginIdle

Next ==
    \/ Construct
    \/ ToDict
    \/ FromDictBack
    \/ Receive
    \/ FromDict
    \/ SetItem
    \/ DelItem
    \/ GetItem
    \/ ToDictBack
    \/ FromDictAgain

\* the codec scenario
Spec == Init /\ [][Next]_vars

InitParse == CodecInit /\ RoundInit /\ ParseInit /\ CallIdle /\ ShareIdle /\ PluginIdle

NextParse == ParseResponse

\* the dispatch scenario
SpecParse == InitParse /\ [][NextParse]_vars

InitCall == CodecInit /\ RoundInit /\ ParseIdle /\ CallIdle /\ ShareIdle /\ PluginIdle

NextCall ==
    \/ CallSyncDetailed
    \/ CallSync
    \/ CallAsyncioDetailed
    \/ CallAsyncio
    \/ SyncRequest
    \/ AsyncioAwait
    \/ SyncReturns
    \/ AsyncioResumes
    \/ Cancel

\* the call scenario
SpecCall == InitCall /\ [][NextCall]_vars

----------------------------------------------------------------------------
(* Claims about the models *)

\* C1: for every model class and every instance m built by a caller,
\* from_dict(to_dict(m)) equals m attribute by attribute, UNSET / None / value
\* states included.
C1_RoundTrip == cstep = "redecoded" => cmodel = corig

C1_Witness ==
    /\ cstep = "redecoded"
    /\ ccls = "Citation"
    /\ corig.d.link = PyNone
    /\ corig.d.partitions.t = "list"
    /\ Len(corig.d.partitions.l) = MaxList
    /\ IsUnset(corig.d.index)
    /\ cmodel = corig

\* what a present value of a field must look like on the wire
C2_Encoded(f, v, w) ==
    CASE f.kind \in {"str", "bool", "int", "float", "liststr"} -> w = v
      [] f.kind \in {"datetime", "enum"} -> w = PyStr(v.s)
      [] f.kind = "dictmodel" -> w = v.d.additional_properties
      [] f.kind = "listmodel" ->
            /\ w.t = "list"
            /\ Len(w.l) = Len(v.l)
            /\ \A i \in 1..Len(w.l) : w.l[i].t = "dict"

\* C2: to_dict emits no key for an UNSET attribute, the key with null for a
\* None attribute and the key with the value's encoding otherwise; the
\* SearchQuery example encodes to exactly its four keys.
C2_TriStateEncode ==
    cstep = "encoded" =>
        /\ cwire.t = "dict"
        /\ \A f \in Fields(ccls) :
              LET v == cmodel.d[f.attr]
              IN  /\ IsUnset(v) => f.key \notin DOMAIN cwire.d
                  /\ v = PyNone => f.key \in DOMAIN cwire.d /\ cwire.d[f.key] = PyNone
                  /\ v.t \notin {"Unset", "None"} =>
                        f.key \in DOMAIN cwire.d /\ C2_Encoded(f, v, cwire.d[f.key])
        /\ cmodel = ExampleSearchQuery =>
              cwire = PyDict([index |-> PyStr("default"), query |-> PyStr("test"),
                              minRelevance |-> PyFloat("0.5"), limit |-> PyInt("3")])

C2_Witness ==
    /\ cstep = "encoded"
    /\ cmodel = ExampleSearchQuery
    /\ DOMAIN cwire.d = {"index", "query", "minRelevance", "limit"}

\* the fields from_dict parses (isoparse, StreamStates) instead of passing on
C3_Parsed(f) == f.kind \in {"datetime", "enum"}

C3_Unparsable(f, data) ==
    \/ data.t # "str"
    \/ f.kind = "datetime" /\ data.s \notin IsoCanonical \cup DOMAIN IsoAlternate
    \/ f.kind = "enum" /\ data.s \notin StreamStatesValues

C3_TriState(fs) ==
    \A f \in fs :
        /\ f.key \notin DOMAIN cwire.d => IsUnset(cmodel.d[f.attr])
        /\ f.key \in DOMAIN cwire.d /\ cwire.d[f.key] = PyNone => cmodel.d[f.attr] = PyNone
        /\ f.key \in DOMAIN cwire.d /\ cwire.d[f.key] # PyNone =>
                cmodel.d[f.attr].t \notin {"Unset", "None"}

\* C3 as stated: from_dict never raises on a wire object, and every optional
\* field maps missing / null / other to UNSET / None / a value.
C3_AsStated == cstep = "decoded" => ~IsRaise(cmodel) /\ C3_TriState(Fields(ccls))

\* C3 as amended: the mapping holds for every field that is not a date-time
\* or streamState field; for those a missing key gives UNSET and a present key
\* is parsed, and from_dict raises exactly when such a key holds null or
\* something that does not parse.
C3_TriStateDecode ==
    cstep = "decoded" =>
        /\ IsRaise(cmodel) <=>
              \E f \in Fields(ccls) :
                  C3_Parsed(f) /\ f.key \in DOMAIN cwire.d /\ C3_Unparsable(f, cwire.d[f.key])
        /\ ~IsRaise(cmodel) =>
              /\ C3_TriState({f \in Fields(ccls) : ~C3_Parsed(f)})
              /\ \A f \in {x \in Fields(ccls) : C3_Parsed(x)} :
                    IF f.key \in DOMAIN cwire.d
                    THEN cmodel.d[f.attr].t \in {"datetime", "StreamStates"}
                    ELSE IsUnset(cmodel.d[f.attr])
        /\ cwire = PyDict(EmptyD) => \A f \in Fields(ccls) : IsUnset(cmodel.d[f.attr])
        /\ ccls = "SearchResult" /\ cwire = PyDict([noResult |-> PyBool("true")]) =>
              /\ IsUnset(cmodel.d.query)
              /\ cmodel.d.no_result = PyBool("true")
              /\ IsUnset(cmodel.d.results)

C3_Witness ==
    /\ cstep = "decoded"
    /\ ccls = "SearchResult"
    /\ cwire = PyDict([noResult |-> PyBool("true")])
    /\ cmodel.d.no_result = PyBool("true")

C10_Poly(f) == f.kind \in {"listmodel", "dictmodel", "liststr"}

C10_Structured(f, v, data) ==
    CASE f.kind = "listmodel" ->
            /\ v.t = "list" /\ data.t = "list" /\ Len(v.l) = Len(data.l)
            /\ \A i \in 1..Len(v.l) : v.l[i].t = "model" /\ v.l[i].s = f.of
      [] f.kind = "dictmodel" -> v.t = "model" /\ v.s = f.of /\ data.t = "dict"
      [] f.kind = "liststr" -> v = data

\* C10: decoding a polymorphic field never fails: from_dict does not raise on
\* a wire object whose other keys are fine, and the field holds UNSET for a
\* missing key, None for null, and otherwise the structured value or the raw
\* wire value unchanged (always the raw value when the wire value is not of
\* the candidate's JSON type or holds an element that is no object).
C10_PolyNeverFails ==
    cstep = "decoded" =>
        /\ (\A f \in Fields(ccls) : C3_Parsed(f) => f.key \notin DOMAIN cwire.d)
              => ~IsRaise(cmodel)
        /\ ~IsRaise(cmodel) =>
              \A f \in {x \in Fields(ccls) : C10_Poly(x)} :
                  LET data == Pop(cwire.d, f.key)
                      v == cmodel.d[f.attr]
                  IN  /\ ~IsRaise(v)
                      /\ IsUnset(data) => IsUnset(v)
                      /\ data = PyNone => v = PyNone
                      /\ data.t \notin {"Unset", "None"} =>
                            v = data \/ C10_Structured(f, v, data)
                      /\ data.t \in {"str", "int"} => v = data
                      /\ (data.t = "list" /\ \E i \in 1..Len(data.l) : data.l[i].t = "int")
                            => v = data

C10_Witness ==
    /\ cstep = "decoded"
    /\ ccls = "Citation"
    /\ "partitions" \in DOMAIN cwire.d
    /\ cwire.d.partitions.t = "list"
    /\ Len(cwire.d.partitions.l) = MaxList
    /\ BadWirePartition = cwire.d.partitions.l[MaxList]
    /\ cmodel.d.partitions = cwire.d.partitions

----------------------------------------------------------------------------
(* The response tables of the service description: per endpoint, the type   *)
(* each listed status code is decoded with.                                 *)

Problem(codes) == [c \in codes |-> "ProblemDetails"]

Table(ep) ==
    CASE ep = "answer_question" -> (200 :> "MemoryAnswer") @@ Problem({401, 403, 503})
      [] ep = "check_document_status" ->
            (200 :> "DataPipelineStatus") @@ Problem({400, 401, 403, 404, 413})
      [] ep = "list_indexes" -> (200 :> "IndexCollection") @@ Problem({401, 403})
      [] ep = "delete_index_by_name" -> (202 :> "DeleteAccepted") @@ Problem({401, 403})
      [] ep = "delete_document_by_id" -> (202 :> "DeleteAccepted") @@ Problem({401, 403})
      [] ep = "upload_document" -> (202 :> "UploadAccepted") @@ Problem({400, 401, 403, 503})

\* the decode of a response body with a type of the tables
DecodeAs(cls, resp) ==
    IF cls = "DeleteAccepted" THEN DeleteAccepted_from_dict(json(resp))
    ELSE from_dict(cls, json(resp))

\* C4: for POST /ask, GET upload-status, GET /indexes, DELETE /indexes and
\* DELETE /documents, a response whose status code is in the endpoint's table
\* is decoded with the table's type and the decoded value is what the
\* dispatcher returns; a response with a problem status is never reported as
\* an unexpected status, and with a JSON object as body it gives a
\* ProblemDetails value without raising, for either value of the flag.
C4_TableDispatch ==
    (/\ pstep = "parsed"
     /\ rendpoint \in Endpoints \ {"upload_document"}
     /\ rresponse.status_code \in DOMAIN Table(rendpoint)) =>
        LET cls == Table(rendpoint)[rresponse.status_code]
        IN  /\ pparsed = DecodeAs(cls, rresponse)
            /\ ~IsRaise(pparsed) => IsInstance(pparsed, cls)
            /\ cls = "ProblemDetails" =>
                  /\ pparsed.s # "UnexpectedStatus"
                  /\ json(rresponse).t = "dict" => IsInstance(pparsed, "ProblemDetails")

C4_Witness ==
    /\ pstep = "parsed"
    /\ rendpoint = "check_document_status"
    /\ rresponse.status_code = 404
    /\ rclient.raise_on_unexpected_status
    /\ IsInstance(pparsed, "ProblemDetails")
    /\ pparsed.d.title = PyStr("Denied")

Handled(ep) == DOMAIN Table(ep) \cup (IF ep = "upload_document" THEN {200} ELSE {})

\* the call of the variant has returned or raised after the transport
\* delivered the response
Answered(v) == pc[v] = "done" /\ outcome[v] = ""

IsWrapper(v) == called[v] \in {"sync", "asyncio"}

\* C6 as stated: for every endpoint and every status code without a branch,
\* the call raises UnexpectedStatus with the raw status code and body when the
\* flag is enabled, and returns an empty parsed result without raising when
\* it is disabled (sync_detailed / asyncio_detailed and the wrappers).
C6_AsStated ==
    \A v \in Variants :
        (Answered(v) /\ rresponse.status_code \notin Handled(rendpoint)) =>
            IF rclient.raise_on_unexpected_status
            THEN result[v] = UnexpectedStatus(rresponse.status_code, rresponse.content)
            ELSE IF IsWrapper(v) THEN result[v] = PyNone
            ELSE result[v].t = "Response" /\ result[v].d.parsed = PyNone

\* C7: when the status code is in the endpoint's table and the body does not
\* decode as the table's type, the call raises the decode error, for either
\* value of the flag: it returns neither a Response nor the empty result, and
\* the error is not UnexpectedStatus.
C7_DecodeErrorSurfaces ==
    \A v \in Variants :
        (/\ Answered(v)
         /\ rresponse.status_code \in DOMAIN Table(rendpoint)
         /\ IsRaise(DecodeAs(Table(rendpoint)[rresponse.status_code], rresponse))) =>
            /\ IsRaise(result[v])
            /\ result[v].s \in {"JSONDecodeError", "TypeError", "ValueError"}
            /\ result[v] = DecodeAs(Table(rendpoint)[rresponse.status_code], rresponse)

C7_Witness ==
    /\ Answered("sync")
    /\ called["sync"] = "sync"
    /\ rendpoint = "check_document_status"
    /\ rresponse.status_code = 200
    /\ rresponse.content = "{\"creation\":\"not-a-date\",\"streamState\":\"bogus\"}"
    /\ ~rclient.raise_on_unexpected_status
    /\ result["sync"] = Raise("ValueError")

\* C8: when the transport raises during the request, the call raises that
\* same exception, whatever the response would have been: the result is not a
\* Response, not UnexpectedStatus, not a decode error and not the empty result.
C8_TransportErrorPropagates ==
    \A v \in Variants :
        (pc[v] = "done" /\ outcome[v] \in TransportErrors) =>
            /\ result[v] = Raise(outcome[v])
            /\ result[v].t # "Response"
            /\ result[v] # PyNone

C8_Witness ==
    /\ pc["sync"] = "done"
    /\ pc["asyncio"] = "done"
    /\ outcome["sync"] = "TimeoutException"
    /\ outcome["asyncio"] = "ConnectError"
    /\ rresponse.status_code = 200
    /\ rresponse.content = "<html>Bad Gateway</html>"
    /\ result["sync"] = Raise("TimeoutException")
    /\ result["asyncio"] = Raise("ConnectError")

\* C9: for every endpoint, flag value and wire response, the blocking call and
\* the awaitable call of the same kind (sync_detailed and asyncio_detailed, or
\* sync and asyncio) given the same transport outcome end with the same
\* result: the same decoded value, the same empty result or the same error.
C9_SyncAsyncioAgree ==
    (/\ pc["sync"] = "done"
     /\ pc["asyncio"] = "done"
     /\ outcome["sync"] = outcome["asyncio"]
     /\ IsWrapper("sync") = IsWrapper("asyncio")) =>
        result["sync"] = result["asyncio"]

C9_Witness ==
    /\ Answered("sync")
    /\ Answered("asyncio")
    /\ called["sync"] = "sync_detailed"
    /\ called["asyncio"] = "asyncio_detailed"
    /\ rendpoint = "list_indexes"
    /\ rresponse.status_code = 401
    /\ result["sync"].t = "Response"
    /\ IsInstance(result["sync"].d.parsed, "ProblemDetails")
    /\ result["asyncio"] = result["sync"]

----------------------------------------------------------------------------
(* Claims about the polymorphic fields *)

\* the decode of one element of a list-of-object field under the candidate
ItemDecode(of, x) ==
    CASE of \in ModelClasses -> from_dict(of, x)
      [] of = "IndexDetails" -> IndexDetails_from_dict(x)
      [] OTHER -> TagsType0_from_dict(of, x)

ListFields(cls) == {f \in Fields(cls) : f.kind = "listmodel"}

\* C11: for a list-of-object field holding a wire array, the decoded field is
\* the list of the decoded elements when every element decodes under the
\* candidate, and the entire raw array when any element fails; a list mixing
\* decoded and raw elements is never produced.
C11_ListAtomic ==
    (cstep = "decoded" /\ ~IsRaise(cmodel)) =>
        \A f \in ListFields(ccls) :
            (f.key \in DOMAIN cwire.d /\ cwire.d[f.key].t = "list") =>
                LET data == cwire.d[f.key]
                    v == cmodel.d[f.attr]
                IN  /\ v.t = "list"
                    /\ Len(v.l) = Len(data.l)
                    /\ IF \A i \in 1..Len(data.l) : ~IsRaise(ItemDecode(f.of, data.l[i]))
                       THEN \A i \in 1..Len(v.l) :
                                IsInstance(v.l[i], f.of) /\ v.l[i] = ItemDecode(f.of, data.l[i])
                       ELSE v = data
                    /\ (\E i \in 1..Len(data.l) : data.l[i].t = "int") => v = data
                    /\ v # data => \A i \in 1..Len(v.l) : IsInstance(v.l[i], f.of)

C11_Witness ==
    /\ cstep = "decoded"
    /\ ccls = "SearchResult"
    /\ "results" \in DOMAIN cwire.d
    /\ cwire.d.results.t = "list"
    /\ Len(cwire.d.results.l) = MaxList
    /\ ~IsRaise(Citation_from_dict(cwire.d.results.l[1]))
    /\ cwire.d.results.l[MaxList] = PyInt("5")
    /\ cmodel.d.results = cwire.d.results

\* the decode of the wire value of a map-valued field under the candidate
DictDecode(of, x) ==
    IF IsArgsClass(of) THEN ArgsType0_from_dict(of, x) ELSE TagsType0_from_dict(of, x)

\* the structured candidate of the field takes the wire value
CandidateAccepts(f, data) ==
    CASE f.kind = "listmodel" ->
            data.t = "list" /\ \A i \in 1..Len(data.l) : ~IsRaise(ItemDecode(f.of, data.l[i]))
      [] f.kind = "dictmodel" -> data.t = "dict" /\ ~IsRaise(DictDecode(f.of, data))
      [] f.kind = "liststr" -> data.t = "list"

\* the decode of the wire value under the structured candidate
CandidateDecode(f, data) ==
    CASE f.kind = "listmodel" -> PyList([i \in 1..Len(data.l) |-> ItemDecode(f.of, data.l[i])])
      [] f.kind = "dictmodel" -> DictDecode(f.of, data)
      [] f.kind = "liststr" -> data

\* C12: a polymorphic field is resolved in the order null, structured
\* candidate, raw fallback, and the first that takes the wire value gives the
\* result: null gives None, a value the structured candidate accepts gives
\* that candidate's decode (never the raw value), and only a value it rejects
\* stays raw; the result depends on nothing but the field's wire value.
C12_PriorityOrder ==
    (cstep = "decoded" /\ ~IsRaise(cmodel)) =>
        \A f \in {x \in Fields(ccls) : C10_Poly(x)} :
            f.key \in DOMAIN cwire.d =>
                LET data == cwire.d[f.key]
                    v == cmodel.d[f.attr]
                IN  CASE data = PyNone -> v = PyNone
                      [] data # PyNone /\ CandidateAccepts(f, data) ->
                            v = CandidateDecode(f, data) /\ C10_Structured(f, v, data)
                      [] OTHER -> v = data

C12_Witness ==
    /\ cstep = "decoded"
    /\ ccls = "DataPipelineStatus"
    /\ "tags" \in DOMAIN cwire.d
    /\ cwire.d.tags = PyDict(EmptyD)
    /\ "steps" \in DOMAIN cwire.d
    /\ cwire.d.steps = PyStr("raw")
    /\ IsInstance(cmodel.d.tags, "DataPipelineStatusTagsType0")
    /\ cmodel.d.steps = PyStr("raw")

----------------------------------------------------------------------------
(* Claims about malformed date-times *)

\* a string that is not ISO-8601
BadDate(data) == data.t = "str" /\ data.s \notin IsoCanonical \cup DOMAIN IsoAlternate

DateFields(cls) == {f \in Fields(cls) : f.kind = "datetime"}

\* the wire object holds a malformed date-time under one of the class's own
\* date-time keys
TopBad(cls, w) ==
    w.t = "dict" /\ \E f \in DateFields(cls) : f.key \in DOMAIN w.d /\ BadDate(w.d[f.key])

\* the wire value is an array with an element of the class that holds a
\* malformed date-time
ElemBad(cls, data) == data.t = "list" /\ \E i \in 1..Len(data.l) : TopBad(cls, data.l[i])

\* the wire value is an array of citations one of which has a partition with
\* a malformed date-time
CitationBad(data) ==
    /\ data.t = "list"
    /\ \E i \in 1..Len(data.l) :
          /\ data.l[i].t = "dict"
          /\ "partitions" \in DOMAIN data.l[i].d
          /\ ElemBad("Partition", data.l[i].d.partitions)

\* the list-of-object fields of the wire object under which a malformed
\* date-time is nested
NestedBad(cls, w) ==
    {f \in ListFields(cls) :
        /\ f.key \in DOMAIN w.d
        /\ \/ f.of \in {"Partition", "TokenUsage"} /\ ElemBad(f.of, w.d[f.key])
           \/ f.of = "Citation" /\ CitationBad(w.d[f.key])}

\* C13 as stated: a malformed date-time, at the top of the wire object or
\* nested in an element of a list field, makes from_dict raise.
C13_AsStated ==
    (cstep = "decoded" /\ (TopBad(ccls, cwire) \/ NestedBad(ccls, cwire) # {})) =>
        IsRaise(cmodel)

\* C13: a malformed date-time under one of the model's own date-time keys
\* makes from_dict raise ValueError (TypeError when an earlier date-time key
\* holds a non-string). Nested in an element of a list field it raises
\* nothing: a list of Partition or TokenUsage elements stays the raw array,
\* and a list of citations is decoded with the partitions of the affected
\* citation left as the raw array.
C13_BadDate ==
    cstep = "decoded" =>
        /\ TopBad(ccls, cwire) => IsRaise(cmodel) /\ cmodel.s \in {"ValueError", "TypeError"}
        /\ (TopBad(ccls, cwire) /\ Cardinality(DOMAIN cwire.d) = 1) => cmodel = Raise("ValueError")
        /\ (\A f \in Fields(ccls) :
                  C3_Parsed(f) /\ f.key \in DOMAIN cwire.d => ~C3_Unparsable(f, cwire.d[f.key]))
              => /\ ~IsRaise(cmodel)
                 /\ \A f \in NestedBad(ccls, cwire) :
                       LET data == cwire.d[f.key]
                           v == cmodel.d[f.attr]
                       IN  IF f.of = "Citation"
                           THEN \A i \in 1..Len(data.l) :
                                    (/\ data.l[i].t = "dict"
                                     /\ "partitions" \in DOMAIN data.l[i].d
                                     /\ ElemBad("Partition", data.l[i].d.partitions)
                                     /\ v # data) =>
                                        /\ IsInstance(v.l[i], "Citation")
                                        /\ v.l[i].d.partitions = data.l[i].d.partitions
                           ELSE v = data

C13_Witness ==
    /\ cstep = "decoded"
    /\ ccls = "SearchResult"
    /\ NestedBad(ccls, cwire) # {}
    /\ cwire.d.results.l[1].d.partitions = PyList(<<BadWirePartition>>)
    /\ IsInstance(cmodel.d.results.l[1], "Citation")
    /\ cmodel.d.results.l[1].d.partitions = PyList(<<BadWirePartition>>)

----------------------------------------------------------------------------
(* Claims about encoding what was decoded *)

\* C14 as stated: to_dict of a model that from_dict returned, raw fallback
\* values in its polymorphic fields included, returns a wire object and does
\* not raise.
C14_AsStated == cstep = "reencoded" => ~IsRaise(cwire) /\ cwire.t = "dict"

----------------------------------------------------------------------------
(* Claims about undeclared wire keys *)

\* the keys of the wire object the class does not declare
Undeclared(cls, w) == DOMAIN w.d \ WireKeys(cls)

\* the wire object without its undeclared keys
Stripped(cls, w) == PyDict(Rest(w.d, Undeclared(cls, w)))

\* C15: a wire object carrying undeclared keys is decoded without an error
\* due to them: from_dict raises only if it also raises on the object without
\* those keys (never when the date-time and streamState keys are well
\* formed), and for every model but ProblemDetails the result equals the
\* decode of the object without them.
C15_UndeclaredIgnored ==
    (cstep = "decoded" /\ Undeclared(ccls, cwire) # {}) =>
        /\ IsRaise(cmodel) <=> IsRaise(from_dict(ccls, Stripped(ccls, cwire)))
        /\ (\A f \in Fields(ccls) :
                  C3_Parsed(f) /\ f.key \in DOMAIN cwire.d => ~C3_Unparsable(f, cwire.d[f.key]))
              => ~IsRaise(cmodel)
        /\ ~IsOpen(ccls) => cmodel = from_dict(ccls, Stripped(ccls, cwire))

C15_Witness ==
    /\ cstep = "decoded"
    /\ ccls = "UploadAccepted"
    /\ DOMAIN cwire.d = {"documentId", "traceId"}
    /\ cwire.d.documentId = PyStr("documentId")
    /\ cmodel = NewModel("UploadAccepted", [document_id |-> PyStr("documentId")])

----------------------------------------------------------------------------
(* Claims about the open model ProblemDetails *)

\* C16: decoding a problem object and encoding the result gives back the
\* object received: the same keys, declared ones under type, title, status,
\* detail and instance and undeclared ones under their own names, each with
\* the value received.
C16_OpenRoundTrip ==
    (cstep = "reencoded" /\ ccls = "ProblemDetails" /\ cmodel = ProblemDetails_from_dict(corig)) =>
        /\ cwire = corig
        /\ DOMAIN cwire.d = DOMAIN corig.d
        /\ \A f \in Fields("ProblemDetails") :
              ~IsUnset(cmodel.d[f.attr]) =>
                 f.key \in DOMAIN cwire.d /\ cwire.d[f.key] = cmodel.d[f.attr]

C16_Witness ==
    /\ cstep = "reencoded"
    /\ ccls = "ProblemDetails"
    /\ DOMAIN corig.d = {"traceId", "errors"}
    /\ cmodel.d.additional_properties = corig
    /\ cwire = corig

\* the captured fields of the ProblemDetails at hand
Captured == cmodel.d.additional_properties.d

C18_CapturedIsRest ==
    (cstep = "decoded" /\ ccls = "ProblemDetails") =>
        /\ IsInstance(cmodel, "ProblemDetails")
        /\ DOMAIN Captured = DOMAIN cwire.d \ ProblemDetailsWireNames
        /\ \A k \in DOMAIN Captured : Captured[k] = cwire.d[k]
        /\ DOMAIN Captured \cap ProblemDetailsWireNames = {}

C18_Witness ==
    /\ cstep = "decoded"
    /\ ccls = "ProblemDetails"
    /\ cwire = FullProblemWire
    /\ DOMAIN Captured = {"traceId", "errors"}
    /\ Captured.traceId = PyStr("x")
    /\ cmodel.d.title = PyStr("title")

----------------------------------------------------------------------------
(* Claims about the request *)

\* the query parameters of the endpoint: argument and wire name
QueryParams(ep) ==
    CASE ep \in {"check_document_status", "delete_document_by_id"} ->
            {<<"index", "index">>, <<"document_id", "documentId">>}
      [] ep = "delete_index_by_name" -> {<<"index", "index">>}
      [] OTHER -> {}

\* C19: in check_document_status, delete_document_by_id and
\* delete_index_by_name, the params handed to the transport hold no entry for
\* an argument that is UNSET (or None) and hold every argument that is a
\* string, the empty string included, under its wire name (index,
\* documentId) with that value; no entry is UNSET, and an entry is the empty
\* string only if the caller passed the empty string.
C19_ParamsOmitUnset ==
    \A v \in Variants :
        (pc[v] # "idle" /\ QueryParams(rendpoint) # {}) =>
            LET params == sent[v].d.params.d
            IN  /\ DOMAIN params \subseteq {q[2] : q \in QueryParams(rendpoint)}
                /\ \A q \in QueryParams(rendpoint) :
                      /\ rargs[q[1]].t \in {"Unset", "None"} => q[2] \notin DOMAIN params
                      /\ rargs[q[1]].t = "str" =>
                            q[2] \in DOMAIN params /\ params[q[2]] = rargs[q[1]]
                      /\ (q[2] \in DOMAIN params /\ params[q[2]] = PyStr("")) =>
                            rargs[q[1]] = PyStr("")
                /\ \A k \in DOMAIN params : ~IsUnset(params[k])

C19_Witness ==
    /\ pc["sync"] = "built"
    /\ rendpoint = "check_document_status"
    /\ IsUnset(rargs.index)
    /\ rargs.document_id = PyStr("doc1")
    /\ sent["sync"].d.method = PyStr("get")
    /\ sent["sync"].d.url = PyStr("/upload-status")
    /\ sent["sync"].d.params = PyDict([documentId |-> PyStr("doc1")])

----------------------------------------------------------------------------
(* Claims about telling the outcomes apart *)

\* the status codes of the endpoint's success branch and of its problem branches
SuccessCodes(ep) == {c \in Handled(ep) : c \notin DOMAIN Table(ep) \/ Table(ep)[c] # "ProblemDetails"}
ProblemCodes(ep) == {c \in DOMAIN Table(ep) : Table(ep)[c] = "ProblemDetails"}

\* C20 as stated, for the value sync / asyncio return: the empty result None
\* is what an unrecognized status gives with raising disabled, so the three
\* outcomes can be told apart exactly when None is returned for no status
\* code with a branch, a ProblemDetails is returned for the problem codes
\* only, and a success code gives neither of the two.
C20_AsStated ==
    \A v \in Variants :
        (Answered(v) /\ IsWrapper(v) /\ ~IsRaise(result[v])) =>
            /\ result[v] = PyNone <=> rresponse.status_code \notin Handled(rendpoint)
            /\ IsInstance(result[v], "ProblemDetails") <=>
                  rresponse.status_code \in ProblemCodes(rendpoint)
            /\ rresponse.status_code \in SuccessCodes(rendpoint) =>
                  result[v] # PyNone /\ ~IsInstance(result[v], "ProblemDetails")

----------------------------------------------------------------------------
(* Claims about cancellation and the course of a call *)

----------------------------------------------------------------------------
(* Concurrent calls on one client *)

\* the responses the two calls are answered with
ShareStatuses == {200, 401, 520}
ShareContents ==
    {"{}", "<html>Bad Gateway</html>",
     "{\"index\":\"default\",\"documentId\":\"doc1\",\"title\":\"Denied\",\"status\":401,\"traceId\":\"t1\"}"}
ShareResponses == {r \in Responses : r.status_code \in ShareStatuses /\ r.content \in ShareContents}

\* the order in which ProblemDetails.from_dict pops the declared keys
PopOrder == <<"type", "title", "status", "detail", "instance">>

\* mutant: d is one dict that every call works on
Working_Shared(ds, c) == ds["first"]

\* d of the from_dict call that runs for call c: a local variable, one per call
Working(ds, c) == ds[c]

Finish(c, value) ==
    /\ sres' = [sres EXCEPT ![c] = value]
    /\ spc' = [spc EXCEPT ![c] = "done"]

\* the request of call c is answered: request(**kwargs) gives it its response
ShareReceive(c) ==
    /\ spc[c] = "idle"
    /\ \E r \in ShareResponses : sresp' = [sresp EXCEPT ![c] = r]
    /\ spc' = [spc EXCEPT ![c] = "received"]
    /\ UNCHANGED <<sdict, sfields, sres>>
    /\ UNCHANGED <<cvars, rvars, pvars, kvars, mvars>>

\* _build_response: HTTPStatus(response.status_code), then _parse_response
\* takes the branch of the status code; a problem branch goes on to
\* ProblemDetails.from_dict(response.json()), where d = dict(src_dict)
ShareBranch(c) ==
    /\ spc[c] = "received"
    /\ IF IsRaise(HTTPStatus(sresp[c].status_code))
       THEN Finish(c, HTTPStatus(sresp[c].status_code)) /\ UNCHANGED sdict
       ELSE IF sresp[c].status_code \notin ProblemCodes(rendpoint)
       THEN Finish(c, build_response(rendpoint, rclient, sresp[c])) /\ UNCHANGED sdict
       ELSE IF IsRaise(DictOf(json(sresp[c])))
       THEN Finish(c, DictOf(json(sresp[c]))) /\ UNCHANGED sdict
       ELSE /\ sdict' = [sdict EXCEPT ![c] = DictOf(json(sresp[c]))]
            /\ spc' = [spc EXCEPT ![c] = "copied"]
            /\ UNCHANGED sres
    /\ UNCHANGED <<sresp, sfields>>
    /\ UNCHANGED <<cvars, rvars, pvars, kvars, mvars>>

\* the next x = _parse_x(d.pop(key, UNSET)) of ProblemDetails.from_dict
SharePop(c) ==
    /\ spc[c] = "copied"
    /\ Len(sfields[c]) < Len(PopOrder)
    /\ sfields' = [sfields EXCEPT ![c] =
                       Append(@, ParseScalar(Pop(Working(sdict, c).d,
                                                 PopOrder[Len(sfields[c]) + 1])))]
    /\ sdict' = [sdict EXCEPT ![c] =
                     PyDict(Rest(Working(sdict, c).d, {PopOrder[Len(sfields[c]) + 1]}))]
    /\ UNCHANGED <<spc, sresp, sres>>
    /\ UNCHANGED <<cvars, rvars, pvars, kvars, mvars>>

\* problem_details = cls(...); problem_details.additional_properties = d;
\* the value goes back through _parse_response into Response(...)
ShareBuild(c) ==
    /\ spc[c] = "copied"
    /\ Len(sfields[c]) = Len(PopOrder)
    /\ Finish(c, Response(HTTPStatus(sresp[c].status_code), sresp[c].content,
                          sresp[c].headers,
                          Model("ProblemDetails",
                                [type_ |-> sfields[c][1],
                                 title |-> sfields[c][2],
                                 status |-> sfields[c][3],
                                 detail |-> sfields[c][4],
                                 instance |-> sfields[c][5],
                                 additional_properties |-> Working(sdict, c)])))
    /\ UNCHANGED <<sresp, sdict, sfields>>
    /\ UNCHANGED <<cvars, rvars, pvars, kvars, mvars>>

InitShare ==
    /\ CodecInit /\ ParseIdle /\ CallIdle /\ ShareIdle /\ PluginIdle
    /\ rendpoint \in Endpoints
    /\ rclient \in {Client(b) : b \in BOOLEAN}
    /\ rresponse = NoResponse
    /\ rargs = NoArgs

Receives == \E c \in Calls : ShareReceive(c)
Branches == \E c \in Calls : ShareBranch(c)
Pops == \E c \in Calls : SharePop(c)
Builds == \E c \in Calls : ShareBuild(c)

NextShare ==
    \/ Receives
    \/ Branches
    \/ Pops
    \/ Builds

\* the shared-client scenario
SpecShare == InitShare /\ [][NextShare]_vars

\* C22: whatever the interleaving of two calls that share one client, a call
\* that has ended has the result the same call gives when it runs alone on
\* its own response.
C22_CallsIndependent ==
    \A c \in Calls :
        spc[c] = "done" => sres[c] = asyncio_detailed(rendpoint, rclient, "", sresp[c])

\* both calls ended after decoding a problem response each, and the two
\* results differ as the two responses do
C22_Witness ==
    /\ spc["first"] = "done"
    /\ spc["second"] = "done"
    /\ rendpoint = "check_document_status"
    /\ sresp["first"].status_code = 401
    /\ sresp["second"].status_code = 401
    /\ sresp["first"].content = "{}"
    /\ sresp["second"].content # "{}"
    /\ sres["second"].t = "Response"
    /\ IsInstance(sres["second"].d.parsed, "ProblemDetails")
    /\ sres["second"].d.parsed.d.title = PyStr("Denied")
    /\ sres["first"] # sres["second"]

----------------------------------------------------------------------------
(* Wire keys *)

\* the words of a snake_case attribute name (the trailing underscore of type_
\* keeps the name clear of the Python builtin and is no word)
SnakeWords ==
    [index |-> <<"index">>, document_id |-> <<"document", "id">>, message |-> <<"message">>,
     query |-> <<"query">>, filters |-> <<"filters">>,
     min_relevance |-> <<"min", "relevance">>, limit |-> <<"limit">>, args |-> <<"args">>,
     question |-> <<"question">>, stream |-> <<"stream">>, no_result |-> <<"no", "result">>,
     results |-> <<"results">>, stream_state |-> <<"stream", "state">>,
     no_result_reason |-> <<"no", "result", "reason">>, text |-> <<"text">>,
     token_usage |-> <<"token", "usage">>, relevant_sources |-> <<"relevant", "sources">>,
     link |-> <<"link">>, file_id |-> <<"file", "id">>,
     source_content_type |-> <<"source", "content", "type">>,
     source_name |-> <<"source", "name">>, source_url |-> <<"source", "url">>,
     partitions |-> <<"partitions">>, relevance |-> <<"relevance">>,
     partition_number |-> <<"partition", "number">>,
     section_number |-> <<"section", "number">>, last_update |-> <<"last", "update">>,
     tags |-> <<"tags">>, timestamp |-> <<"timestamp">>,
     service_type |-> <<"service", "type">>, model_type |-> <<"model", "type">>,
     model_name |-> <<"model", "name">>,
     tokenizer_tokens_in |-> <<"tokenizer", "tokens", "in">>,
     tokenizer_tokens_out |-> <<"tokenizer", "tokens", "out">>,
     service_tokens_in |-> <<"service", "tokens", "in">>,
     service_tokens_out |-> <<"service", "tokens", "out">>,
     service_reasoning_tokens |-> <<"service", "reasoning", "tokens">>,
     completed |-> <<"completed">>, empty |-> <<"empty">>, creation |-> <<"creation">>,
     steps |-> <<"steps">>, remaining_steps |-> <<"remaining", "steps">>,
     completed_steps |-> <<"completed", "steps">>, type_ |-> <<"type">>,
     title |-> <<"title">>, status |-> <<"status">>, detail |-> <<"detail">>,
     instance |-> <<"instance">>, name |-> <<"name">>]

\* a word with its first letter in upper case
Capitalized ==
    [id |-> "Id", relevance |-> "Relevance", result |-> "Result", state |-> "State",
     reason |-> "Reason", usage |-> "Usage", sources |-> "Sources", content |-> "Content",
     type |-> "Type", name |-> "Name", url |-> "Url", number |-> "Number",
     update |-> "Update", tokens |-> "Tokens", in |-> "In", out |-> "Out",
     reasoning |-> "Reasoning", steps |-> "Steps"]

RECURSIVE JoinCapitalized(_)
JoinCapitalized(words) ==
    IF words = <<>> THEN ""
    ELSE Capitalized[Head(words)] \o JoinCapitalized(Tail(words))

\* the camelCase form of a snake_case name
CamelCase(attr) == Head(SnakeWords[attr]) \o JoinCapitalized(Tail(SnakeWords[attr]))

\* the attributes of the model that hold a value
SetAttrs(m) == {a \in Attrs(m.s) : ~IsUnset(m.d[a])}

\* C23 as stated: every attribute that holds a value is written under the
\* camelCase form of its name.
C23_AsStated ==
    (cstep = "encoded" /\ ~IsRaise(cwire)) =>
        \A a \in SetAttrs(corig) : CamelCase(a) \in DOMAIN cwire.d

\* the key a declared field has on the wire: the camelCase form of the
\* attribute name, except in DataPipelineStatus, whose keys are the attribute
\* names themselves
WireName(cls, attr) == IF cls = "DataPipelineStatus" THEN attr ELSE CamelCase(attr)

\* C23: to_dict writes every attribute that holds a value under its wire key
\* and writes no other key for a declared field, and from_dict reads an
\* attribute from that same key: the attribute holds a value exactly when
\* the key is in the wire object. The wire key is the camelCase form of the
\* attribute name for ten models and the attribute name itself
\* (document_id, last_update, remaining_steps, completed_steps) for
\* DataPipelineStatus.
C23_OneWireKey ==
    /\ (cstep = "encoded" /\ ~IsRaise(cwire)) =>
            /\ \A a \in SetAttrs(corig) : WireName(ccls, a) \in DOMAIN cwire.d
            /\ IsOpen(ccls) \/
                  DOMAIN cwire.d = {WireName(ccls, a) : a \in SetAttrs(corig)}
    /\ (cstep = "decoded" /\ ~IsRaise(cmodel)) =>
            \A a \in Attrs(ccls) :
                ~IsUnset(cmodel.d[a]) <=> WireName(ccls, a) \in DOMAIN corig.d

\* a Partition was decoded whose last_update was read from lastUpdate
C23_Witness ==
    /\ cstep = "decoded"
    /\ ccls = "Partition"
    /\ ~IsRaise(cmodel)
    /\ "lastUpdate" \in DOMAIN corig.d
    /\ "lastUpdate" = WireName(ccls, "last_update")
    /\ cmodel.d.last_update.t = "datetime"

----------------------------------------------------------------------------
(* The course of a call *)

\* what one step may change for the call of variant v
C24_Step(v) ==
    /\ pc'[v] # pc[v] =>
            <<pc[v], pc'[v]>> \in {<<"idle", "built">>, <<"built", "sent">>, <<"sent", "done">>}
    /\ sent'[v] # sent[v] => (pc[v] = "idle" /\ pc'[v] = "built")
    /\ (pc[v] = "built" /\ pc'[v] = "sent") => requests'[v] = requests[v] + 1
    /\ requests'[v] # requests[v] => (pc[v] = "built" /\ pc'[v] = "sent")
    /\ decodes'[v] # decodes[v] =>
            (pc[v] = "sent" /\ pc'[v] = "done" /\ outcome'[v] = "" /\ decodes'[v] = 1)
    /\ result'[v] # result[v] => (pc[v] = "sent" /\ pc'[v] = "done")
    /\ outcome'[v] = CancelledError => (v = "asyncio" /\ pc[v] \in {"sent", "done"})
    /\ pc[v] = "done" =>
            /\ pc'[v] = "done"
            /\ result'[v] = result[v]
            /\ outcome'[v] = outcome[v]

\* what holds of the call of variant v at every moment
C24_Stage(v) ==
    /\ pc[v] \in {"idle", "built", "sent", "done"}
    /\ requests[v] = IF pc[v] \in {"sent", "done"} THEN 1 ELSE 0
    /\ decodes[v] = IF pc[v] = "done" /\ outcome[v] = "" THEN 1 ELSE 0
    /\ pc[v] # "done" => result[v] = NoVal
    /\ pc[v] = "done" => result[v] # NoVal
    /\ v \in inflight <=> pc[v] = "sent"

\* C24: a call goes from idle to built (the request descriptor), to sent and
\* to done, in this order and one step at a time; the request is sent once,
\* on the step from built to sent; the decode runs once at most, on the step
\* that ends the call, and only when the response was received; the result
\* is set on that step and never changes afterwards; the call waits on the
\* transport only while it is in sent, and a cancellation reaches the
\* awaitable variant only there.
C24_CallCourse ==
    /\ [](\A v \in Variants : C24_Stage(v))
    /\ [][\A v \in Variants : C24_Step(v)]_vars

\* both variants ended: the awaitable one decoded the success type, the
\* blocking one ended with the transport's error, each after one request
C24_Witness ==
    /\ rendpoint = "answer_question"
    /\ rresponse.status_code = 200
    /\ rresponse.content = "{}"
    /\ pc["asyncio"] = "done"
    /\ outcome["asyncio"] = ""
    /\ called["asyncio"] = "asyncio"
    /\ IsInstance(result["asyncio"], "MemoryAnswer")
    /\ requests["asyncio"] = 1
    /\ decodes["asyncio"] = 1
    /\ pc["sync"] = "done"
    /\ outcome["sync"] = "TimeoutException"
    /\ requests["sync"] = 1
    /\ decodes["sync"] = 0

----------------------------------------------------------------------------
(* Order of list elements *)

\* C25 as stated: a decoded list-of-object field has the length of the wire
\* array and its i-th element is the decode of the i-th wire element.
C25_AsStated ==
    (cstep = "decoded" /\ ~IsRaise(cmodel)) =>
        \A f \in ListFields(ccls) :
            (f.key \in DOMAIN cwire.d /\ cwire.d[f.key].t = "list") =>
                /\ cmodel.d[f.attr].t = "list"
                /\ Len(cmodel.d[f.attr].l) = Len(cwire.d[f.key].l)
                /\ \A i \in 1..Len(cwire.d[f.key].l) :
                        cmodel.d[f.attr].l[i] = ItemDecode(f.of, cwire.d[f.key].l[i])

\* item.to_dict() of one element of a list-of-object field
ItemEncode(of, x) ==
    CASE of \in ModelClasses -> to_dict(x)
      [] of = "IndexDetails" -> IndexDetails_to_dict(x)
      [] OTHER -> TagsType0_to_dict(x)

\* C25: a decoded list-of-object field has the length of the wire array; its
\* i-th element is the decode of the i-th wire element when every element
\* decodes, and the i-th wire element itself when some element does not (the
\* array is then kept as received). to_dict of a list of models gives an
\* array of the same length whose i-th element is the encoding of the i-th
\* model. No element is reordered, dropped or duplicated either way.
C25_OrderKept ==
    /\ (cstep = "decoded" /\ ~IsRaise(cmodel)) =>
            \A f \in ListFields(ccls) :
                (f.key \in DOMAIN cwire.d /\ cwire.d[f.key].t = "list") =>
                    /\ cmodel.d[f.attr].t = "list"
                    /\ Len(cmodel.d[f.attr].l) = Len(cwire.d[f.key].l)
                    /\ \A i \in 1..Len(cwire.d[f.key].l) :
                            cmodel.d[f.attr].l[i] =
                                IF \A j \in 1..Len(cwire.d[f.key].l) :
                                       ~IsRaise(ItemDecode(f.of, cwire.d[f.key].l[j]))
                                THEN ItemDecode(f.of, cwire.d[f.key].l[i])
                                ELSE cwire.d[f.key].l[i]
    /\ (cstep = "encoded" /\ ~IsRaise(cwire)) =>
            \A f \in ListFields(ccls) :
                cmodel.d[f.attr].t = "list" =>
                    /\ f.key \in DOMAIN cwire.d
                    /\ cwire.d[f.key].t = "list"
                    /\ Len(cwire.d[f.key].l) = Len(cmodel.d[f.attr].l)
                    /\ \A i \in 1..Len(cmodel.d[f.attr].l) :
                            cwire.d[f.key].l[i] = ItemEncode(f.of, cmodel.d[f.attr].l[i])

\* a SearchResult was decoded from an array of MaxList citations, the first
\* and the last of them different, and holds their decodes in that order
C25_Witness ==
    /\ cstep = "decoded"
    /\ ccls = "SearchResult"
    /\ "results" \in DOMAIN cwire.d
    /\ cwire.d.results.t = "list"
    /\ Len(cwire.d.results.l) = MaxList
    /\ cwire.d.results.l[1] # cwire.d.results.l[MaxList]
    /\ cmodel.d.results.t = "list"
    /\ IsInstance(cmodel.d.results.l[1], "Citation")
    /\ cmodel.d.results.l[1] = Citation_from_dict(cwire.d.results.l[1])
    /\ cmodel.d.results.l[MaxList] = Citation_from_dict(cwire.d.results.l[MaxList])
    /\ cmodel.d.results.l[1] # cmodel.d.results.l[MaxList]

----------------------------------------------------------------------------
(* Item access on ProblemDetails *)

\* the step is an item operation on the decoded ProblemDetails
ItemStep == cstep \in {"decoded", "edited"} /\ cstep' = "edited"

\* the captured fields of the ProblemDetails at hand
CapturedOf(m) == m.d.additional_properties.d

C26_Step ==
    ItemStep =>
        /\ \A a \in Attrs("ProblemDetails") : cmodel'.d[a] = cmodel.d[a]
        /\ \A k \in (DOMAIN CapturedOf(cmodel) \cup DOMAIN CapturedOf(cmodel')) \ {cop'.key} :
                /\ k \in DOMAIN CapturedOf(cmodel)
                /\ k \in DOMAIN CapturedOf(cmodel')
                /\ CapturedOf(cmodel')[k] = CapturedOf(cmodel)[k]
        /\ cop'.op = "setitem" =>
                /\ cop'.key \in DOMAIN CapturedOf(cmodel')
                /\ CapturedOf(cmodel')[cop'.key] = cop'.value
        /\ cop'.op = "delitem" => cop'.key \notin DOMAIN CapturedOf(cmodel')
        /\ ProblemDetails_additional_keys(cmodel') =
                CASE cop'.op = "setitem" -> ProblemDetails_additional_keys(cmodel) \cup {cop'.key}
                  [] cop'.op = "delitem" -> ProblemDetails_additional_keys(cmodel) \ {cop'.key}
                  [] OTHER -> ProblemDetails_additional_keys(cmodel)
        /\ \A k \in ItemKeys \cup ProblemDetailsWireNames \cup DOMAIN CapturedOf(cmodel') :
                ProblemDetails_contains(cmodel', k) <=>
                    k \in ProblemDetails_additional_keys(cmodel')

\* C26: problem[k] = v makes k a captured key with value v, del problem[k]
\* leaves k not captured; either leaves the five declared attributes and
\* every other captured key with its value as they were; after each
\* operation additional_keys is the set of captured keys (the former set
\* with k added, or with k removed) and 'k in problem' agrees with it.
C26_ItemFrame == [][C26_Step]_vars

\* traceId was deleted from a ProblemDetails that keeps its title and the
\* captured key errors
C26_Witness ==
    /\ cstep = "edited"
    /\ cop.op = "delitem"
    /\ cop.key = "traceId"
    /\ cop.ret = PyNone
    /\ "traceId" \in DOMAIN corig.d
    /\ cmodel.d.title = PyStr("title")
    /\ ProblemDetails_additional_keys(cmodel) = {"errors"}

\* C27 as stated: a ProblemDetails decoded and then edited with any sequence
\* of item assignments and deletions is equal to the decode of its encoding.
C27_AsStated == cstep = "reread" => cmodel = corig

C28_Step ==
    (ItemStep /\ cop'.op \in {"getitem", "delitem"}
              /\ cop'.key \notin DOMAIN CapturedOf(cmodel)) =>
        /\ cop'.ret = Raise("KeyError")
        /\ cmodel' = cmodel

\* C28: problem[k] and del problem[k] for a key k that is not captured raise
\* KeyError and leave the declared attributes and the captured fields as they
\* were.
C28_MissingKey == [][C28_Step]_vars

\* title, a declared field that holds a value, is not a captured key: reading
\* problem["title"] raised KeyError
C28_Witness ==
    /\ cstep = "edited"
    /\ cop.op = "getitem"
    /\ cop.key = "title"
    /\ cop.ret = Raise("KeyError")
    /\ cmodel.d.title = PyStr("title")
    /\ cmodel = ProblemDetails_from_dict(corig)

----------------------------------------------------------------------------
(* MemoryPlugin.search *)

\* search_document_snippets.sync(client=..., body=...) for the status code
\* and the JSON body the service answers with: 200 is a SearchResult, 401 and
\* 403 a ProblemDetails, any other status is unexpected
search_document_snippets_sync(client, status_code, body) ==
    CASE status_code = 200 -> SearchResult_from_dict(body)
      [] status_code = 401 -> ProblemDetails_from_dict(body)
      [] status_code = 403 -> ProblemDetails_from_dict(body)
      [] OTHER -> IF client.raise_on_unexpected_status
                  THEN UnexpectedStatus(status_code, "")
                  ELSE PyNone

\* bool(x): None, an empty str, list or dict and UNSET are false; an instance
\* of a model class (no __bool__, no __len__) is true
Truthy(x) ==
    CASE x.t \in {"None", "Unset"} -> FALSE
      [] x.t = "str" -> x.s # ""
      [] x.t = "list" -> x.l # <<>>
      [] x.t = "dict" -> DOMAIN x.d # {}
      [] OTHER -> TRUE

\* hasattr(x, name): the attributes of a model instance
HasAttr(x, name) ==
    x.t = "model" /\ name \in Attrs(x.s) \cup (IF IsOpen(x.s) THEN {"additional_properties"} ELSE {})

\* len(x) == 0, or the TypeError len() raises for a value without __len__
\* (None, UNSET, a number, a model instance)
LenIsZero(x) ==
    CASE x.t = "list" -> PyBool(IF x.l = <<>> THEN "true" ELSE "false")
      [] x.t = "str" -> PyBool(IF x.s = "" THEN "true" ELSE "false")
      [] x.t = "dict" -> PyBool(IF DOMAIN x.d = {} THEN "true" ELSE "false")
      [] OTHER -> Raise("TypeError")

\* json.dumps(obj) of a JSON value: the text standing for it
json_dumps(obj) == IF IsRaise(obj) THEN obj ELSE V("json", "", <<>>, [text |-> obj])

EmptyResults == json_dumps(PyDict([results |-> PyList(<<>>)]))

\* MemoryPlugin.search from the value search_document_snippets.sync gave:
\*   if not result or not hasattr(result, "results") or len(result.results) == 0:
\*       return json.dumps({"results": []})
\*   return json.dumps(result.to_dict())
\* an exception of the call, of len() or of to_dict() leaves search
MemoryPlugin_search(found) ==
    IF IsRaise(found) THEN found
    ELSE IF ~Truthy(found) \/ ~HasAttr(found, "results") THEN EmptyResults
    ELSE IF IsRaise(LenIsZero(found.d.results)) THEN LenIsZero(found.d.results)
    ELSE IF LenIsZero(found.d.results) = PyBool("true") THEN EmptyResults
    ELSE json_dumps(to_dict(found))

\* the answers of the service to the search request
PluginResponses ==
    {[status_code |-> 200, body |-> w] :
        w \in {PyDict(g) : g \in WireAssign(Fields("SearchResult"))} \cup
              {PyDict([noResult |-> PyBool("true")]), PyDict(EmptyD),
               PyDict([results |-> PyNone]),
               PyDict([query |-> PyStr("q"), results |-> PyList(<<>>)])}}
    \cup {[status_code |-> c, body |-> w] :
            c \in {401, 403, 418}, w \in {PyDict(EmptyD), FullProblemWire}}

InitPlugin ==
    /\ CodecInit /\ ParseIdle /\ CallIdle /\ ShareIdle
    /\ rendpoint = ""
    /\ rclient \in {Client(b) : b \in BOOLEAN}
    /\ rresponse = NoResponse
    /\ rargs = NoArgs
    /\ mstep = "ready"
    /\ mresponse \in PluginResponses
    /\ mresult = NoVal
    /\ mreturn = NoVal

\* search(query, index, ...) runs: the query is sent, the service answers,
\* and search returns or raises
Search ==
    /\ mstep = "ready"
    /\ mresult' = search_document_snippets_sync(rclient, mresponse.status_code, mresponse.body)
    /\ mreturn' = MemoryPlugin_search(mresult')
    /\ mstep' = "returned"
    /\ UNCHANGED mresponse
    /\ UNCHANGED <<cvars, rvars, pvars, kvars, svars>>

NextPlugin == Search

\* the plugin scenario
SpecPlugin == InitPlugin /\ [][NextPlugin]_vars

\* the SearchResult has no results: results is UNSET, None or an empty list
NoResults(found) ==
    /\ IsInstance(found, "SearchResult")
    /\ found.d.results \in {UNSET, PyNone, PyList(<<>>)}

\* C30 as stated: search returns a JSON string whenever the call gave a
\* decoded response or no result object: {"results": []} for no result
\* object, a ProblemDetails, or a SearchResult without results, and the JSON
\* encoding of the SearchResult otherwise.
C30_AsStated ==
    (mstep = "returned" /\ ~IsRaise(mresult)) =>
        /\ ~IsRaise(mreturn)
        /\ mreturn = IF \/ mresult = PyNone
                        \/ IsInstance(mresult, "ProblemDetails")
                        \/ NoResults(mresult)
                     THEN EmptyResults
                     ELSE json_dumps(to_dict(mresult))

====
